---- MODULE Spec2Model ----
(***************************************************************************)
(* Resume persistence and sharing model of the Resume-Builder front end:   *)
(* the data-access layer (services/firebaseService), the useFirestore      *)
(* hook, and the pages that write to the document store directly           *)
(* (TemplateGallery, Dashboard, ResumeBuilder), run against a document     *)
(* store that enforces firestore.rules.                                    *)
(*                                                                         *)
(* Every `await` of the source is one step: the request is evaluated by    *)
(* the store atomically, and the steps of different clients interleave.    *)
(***************************************************************************)
EXTENDS Integers, Sequences, FiniteSets, TLC

(***************************************************************************)
(* Bounds of the model.                                                    *)
(***************************************************************************)
MaxClients == 2
MaxVersion == 3
MaxTime == 2
MaxViews == 2
\* resumes created in one behaviour of each specification
VersionsResumes == 1
RecencyResumes == 2
ShareResumes == 1
TenantResumes == 2
ProjectionResumes == 1
IdentityResumes == 1
FailureResumes == 2
ListingResumes == 2
MaxTemplates == 2
RaceResumes == 3
MaxEdits == 2
MaxFetches == 2
MaxTimers == 3
MaxEvents == 2

Clients == 1..MaxClients
Users == {"A", "B"}
NoUser == "none"

(***************************************************************************)
(* Documents are records; a missing document is NoDoc.  A nullable or      *)
(* optional value is <<>> (null / undefined) or <<v>>.                     *)
(***************************************************************************)
NoDoc == [exists |-> FALSE]
Null == <<>>
Some(v) == <<v>>
Has(d, f) == f \in DOMAIN d
\* d.f || dflt
Get(d, f, dflt) == IF f \in DOMAIN d THEN d[f] ELSE dflt
\* updateDoc / setDoc(..., {merge: true}): the fields of patch replace
\* those of doc, the other fields of doc stay.
Merge(doc, patch) ==
  [f \in (DOMAIN doc) \cup (DOMAIN patch) |->
     IF f \in DOMAIN patch THEN patch[f] ELSE doc[f]]
\* { ...obj } without the field f (delete obj.f)
Without(d, f) == [g \in (DOMAIN d) \ {f} |-> d[g]]

RECURSIVE FilterNe(_, _)
\* list.filter(id => id !== x)
FilterNe(list, x) ==
  IF list = <<>> THEN <<>>
  ELSE IF Head(list) = x THEN FilterNe(Tail(list), x)
       ELSE <<Head(list)>> \o FilterNe(Tail(list), x)
\* list.slice(0, n)
Slice(list, n) == IF Len(list) <= n THEN list ELSE SubSeq(list, 1, n)
Range(s) == {s[i] : i \in 1..Len(s)}
NoDup(s) == \A i, j \in 1..Len(s) : s[i] = s[j] => i = j
IsPrefix(s, t) == Len(s) <= Len(t) /\ \A i \in 1..Len(s) : s[i] = t[i]

(***************************************************************************)
(* Recency lists (UserSettings.recentlyUsed).                              *)
(***************************************************************************)
RecentResumesCap == 10
RecentTemplatesCap == 5
\* a push to the front that forgets the slice
PushFront_NoSlice(id, list, cap) == <<id>> \o FilterNe(list, id)
\* [id, ...list.filter(x => x !== id)].slice(0, cap)
PushFront(id, list, cap) == Slice(<<id>> \o FilterNe(list, id), cap)

GalleryTemplates ==
  {"classic", "modern", "executive", "creative", "technical", "academic"}

\* the document ids the store generates: enough for a full recency list
\* and the resumes a behaviour adds to it
MaxResumes == RecentResumesCap - 1 + RecencyResumes
ResumeIds == 1..MaxResumes

(***************************************************************************)
(* Resume content: personal info and the five list-type sections.          *)
(***************************************************************************)
EmptyContent(name) ==
  [personalInfo |-> name, education |-> <<>>, experience |-> <<>>,
   skills |-> <<>>, projects |-> <<>>, certifications |-> <<>>]
FilledContent ==
  [personalInfo |-> "edited", education |-> <<"school">>, experience |-> <<>>,
   skills |-> <<"tla">>, projects |-> <<>>, certifications |-> <<>>]

(***************************************************************************)
(* firestore.rules: a is request.auth.uid, or NoUser for request.auth ==   *)
(* null; resource is the stored document the request addresses.            *)
(***************************************************************************)
AllowUserRead(a, userId) == a # NoUser /\ a = userId
AllowUserCreate(a) == a # NoUser
AllowResume(a, userId) == a # NoUser /\ a = userId
AllowSettings(a, userId) == a # NoUser /\ a = userId
AllowAnalyticsCreate(a, newDoc) ==
  a # NoUser /\ Get(newDoc, "userId", NoUser) = a
\* templates and defaultTemplates: allow write; profile is users/{a}
AllowTemplateWrite(a, profile) ==
  /\ a # NoUser
  /\ profile # NoDoc
  /\ Get(profile, "isAdmin", FALSE) = TRUE
\* templates and defaultTemplates: allow read
AllowTemplateRead(a) == a # NoUser
AllowSharedRead == TRUE
AllowSharedUpdate(a, resource) ==
  a # NoUser /\ resource # NoDoc /\ resource.userId = a
AllowSharedCreate(a, newDoc) == a # NoUser /\ newDoc.userId = a
\* setDoc on sharedResumes/{id}: a create when absent, an update otherwise
AllowSharedSet(a, resource, newDoc) ==
  IF resource = NoDoc THEN AllowSharedCreate(a, newDoc)
  ELSE AllowSharedUpdate(a, resource)

VARIABLES
  auth,           \* auth.currentUser of each client: a uid or NoUser
  users,          \* users/{userId}
  userSettings,   \* userSettings/{userId}
  resumes,        \* users/{userId}/resumes/{resumeId}, keyed <<userId, id>>
  sharedResumes,  \* sharedResumes/{resumeId}
  nextId,         \* next auto-generated document id
  now,            \* the clock (days)
  proc,           \* the asynchronous operation each client has in flight
  builder,        \* ResumeBuilder page state of each client
  result,         \* outcome of the operation that finished last
  hook,           \* useFirestore state of each client: loading, error
  analytics,      \* analytics/{docId}, in the order of creation
  before,         \* history, kept for the clients in its domain: the documents
                  \* as the running or failed write operation of the client
                  \* found them
  ghost           \* history variables used to state the properties

vars == <<auth, users, userSettings, resumes, sharedResumes, nextId, now,
          proc, builder, result, hook, analytics, before, ghost>>

Idle == [op |-> "idle"]
NoResult == [op |-> "none", status |-> "none"]
Res(c, op, status, rid) ==
  [client |-> c, op |-> op, status |-> status, rid |-> rid]
NoBuilder == [open |-> FALSE]
\* useState<boolean>(true), useState<string | null>(null),
\* useState<UserProfile | null>(null), useState<UserSettings | null>(null);
\* a profile and a settings object are held as the uid they belong to
NewHook ==
  [loading |-> TRUE, error |-> Null, user |-> Null, userSettings |-> Null]

\* a lookup that finds the resume under whichever user holds it
ResumeRef_AnyOwner(userId, resumeId) ==
  IF \E u \in Users : resumes[<<u, resumeId>>] # [exists |-> FALSE]
  THEN <<CHOOSE u \in Users : resumes[<<u, resumeId>>] # [exists |-> FALSE],
         resumeId>>
  ELSE <<userId, resumeId>>
\* doc(db, `users/${userId}/resumes`, resumeId)
ResumeRef(userId, resumeId) == <<userId, resumeId>>
ResumeKeys == Users \X ResumeIds

(***************************************************************************)
(* Initial state: an empty store, nobody signed in.                        *)
(***************************************************************************)
GhostInit ==
  [updCount  |-> [k \in ResumeKeys |-> 0],      \* successful updateResume calls
   clean     |-> [k \in ResumeKeys |-> FALSE],  \* only sequential updates so far
   views     |-> [r \in ResumeIds |-> 0],       \* successful views since the share
   racy      |-> [r \in ResumeIds |-> FALSE],   \* a view overlapped a share
   shareDays |-> [r \in ResumeIds |-> Null],    \* expiresInDays of the last share
   unshared  |-> [r \in ResumeIds |-> "no"],    \* "deleted": an unshare removed the
                                                \* share; "yes": it completed; "no":
                                                \* a shareResume ran since or meanwhile
   sharedFrom |-> [r \in ResumeIds |-> <<>>],   \* what the last share read of the source
   created   |-> 0,                             \* resumes created in this behaviour
   touched   |-> {},                            \* <<issuer, owner of resume path>>
   deleted   |-> {}]                            \* resume paths a delete completed on

Init ==
  /\ auth = [c \in Clients |-> NoUser]
  /\ users = [u \in Users |-> NoDoc]
  /\ userSettings = [u \in Users |-> NoDoc]
  /\ resumes = [k \in ResumeKeys |-> NoDoc]
  /\ sharedResumes = [r \in ResumeIds |-> NoDoc]
  /\ nextId = 1
  /\ now = 0
  /\ proc = [c \in Clients |-> Idle]
  /\ builder = [c \in Clients |-> NoBuilder]
  /\ result = NoResult
  /\ hook = [c \in Clients |-> NewHook]
  /\ analytics = <<>>
  /\ before = <<>>
  /\ ghost = GhostInit

\* the operations of the data layer that write resumes, shares and settings
WriteOps ==
  {"createResume", "updateResume", "deleteResume", "shareResume",
   "unshareResume"}
Store ==
  [resumes |-> resumes, sharedResumes |-> sharedResumes,
   userSettings |-> userSettings]
\* the same operation called with the same arguments
SameCall(p, q) ==
  /\ p.op = q.op
  /\ Get(p, "rid", 0) = Get(q, "rid", 0)
  /\ p.op = "createResume" => p.resumeData = q.resumeData
  /\ p.op = "shareResume" => p.expiresInDays = q.expiresInDays
\* history of a write operation of client c that starts as call p: the
\* documents it finds (store), and the documents the first of the failed
\* calls it repeats found (base)
Started(c, p) ==
  IF /\ before[c] # <<>>
     /\ result # [op |-> "none", status |-> "none"]
     /\ result.client = c
     /\ result.status # "ok"
     /\ SameCall(before[c][1].call, p)
     /\ result.op = p.op
  THEN <<[store |-> Store, base |-> before[c][1].base, call |-> p]>>
  ELSE <<[store |-> Store, base |-> Store, call |-> p]>>
\* the operation of client c ends: its promise resolves or rejects
Finish(c, op, status, rid) ==
  /\ proc' = [proc EXCEPT ![c] = Idle]
  /\ result' = Res(c, op, status, rid)
  /\ before' = IF c \in DOMAIN before /\ status = "ok"
                THEN [before EXCEPT ![c] = <<>>]
                ELSE before
\* the operation of client c goes on to its next request
Goto(c, p) ==
  /\ proc' = [proc EXCEPT ![c] = p]
  /\ before' = IF c \in DOMAIN before /\ proc[c] = Idle /\ p.op \in WriteOps
                THEN [before EXCEPT ![c] = Started(c, p)]
                ELSE before
At(c, op, pc) == proc[c].op = op /\ proc[c].pc = pc
\* history: the client signed in as `issuer` addressed a resume path of `owner`
Touch(issuer, owner) == ghost.touched \cup {<<issuer, owner>>}

(***************************************************************************)
(* Identity provider: sign-in and sign-out of a client.                    *)
(***************************************************************************)
SignIn(c, u) ==
  /\ auth[c] = NoUser
  /\ auth' = [auth EXCEPT ![c] = u]
  /\ UNCHANGED <<hook, users, userSettings, resumes, sharedResumes, nextId,
                 now, proc, before, builder, result, ghost, analytics>>

SignOut(c) ==
  /\ auth[c] # NoUser
  /\ auth' = [auth EXCEPT ![c] = NoUser]
  /\ UNCHANGED <<hook, users, userSettings, resumes, sharedResumes, nextId,
                 now, proc, before, builder, result, ghost, analytics>>

Tick ==
  /\ now < MaxTime
  /\ now' = now + 1
  /\ UNCHANGED <<hook, auth, users, userSettings, resumes, sharedResumes,
                 nextId, proc, before, builder, result, ghost, analytics>>

(***************************************************************************)
(* Documents written by the data layer.                                    *)
(***************************************************************************)
\* createUserProfile: the profile of a first sign-in
NewUserProfile(userId, t) ==
  [uid |-> userId, email |-> userId, isAdmin |-> FALSE, lastLogin |-> t]
\* createResume: the profile written when none exists
BareUserProfile(userId) == [uid |-> userId, email |-> userId]
\* createUserProfile / createResume: default settings
NewUserSettings(userId, resumeList, templateList) ==
  [userId |-> userId, theme |-> "light",
   recentlyUsed |-> [resumes |-> resumeList, templates |-> templateList]]
RecentResumes(settings) ==
  IF Has(settings, "recentlyUsed") /\ Has(settings.recentlyUsed, "resumes")
  THEN settings.recentlyUsed.resumes ELSE <<>>
RecentTemplates(settings) ==
  IF Has(settings, "recentlyUsed") /\ Has(settings.recentlyUsed, "templates")
  THEN settings.recentlyUsed.templates ELSE <<>>
\* updateDoc(ref, {'recentlyUsed.resumes': rs, 'recentlyUsed.templates': ts})
SetRecent(settings, rs, ts) ==
  Merge(settings,
        [recentlyUsed |->
           Merge(Get(settings, "recentlyUsed", <<>>),
                 [resumes |-> rs, templates |-> ts])])
\* updateDoc(ref, {'recentlyUsed.resumes': rs})
SetRecentResumes(settings, rs) ==
  Merge(settings,
        [recentlyUsed |->
           Merge(Get(settings, "recentlyUsed", <<>>), [resumes |-> rs])])

\* serverTimestamp() as the store resolves it, and new Date().toISOString():
\* values of different types in the store
Timestamp(t) == [type |-> "timestamp", t |-> t]
IsoString(t) == [type |-> "string", t |-> t]

\* createResume: the document inserted for resumeData at time t
NewResume(resumeData, userId, t) ==
  [title      |-> Get(resumeData, "title", "Untitled Resume"),
   templateId |-> Get(resumeData, "templateId", ""),
   isPublic   |-> FALSE,
   content    |-> Get(resumeData, "content", EmptyContent(userId)),
   settings   |-> Get(resumeData, "settings", "default"),
   updatedAt  |-> Timestamp(t),
   version    |-> 1,
   versions   |-> <<[versionNumber |-> 1, changes |-> "Initial creation"]>>]

(***************************************************************************)
(* createResume (services/firebaseService)                                 *)
(***************************************************************************)
createResume_getUser(c, resumeData) ==
  /\ proc[c] = Idle
  /\ IF auth[c] = NoUser
     THEN /\ Finish(c, "createResume", "User not authenticated", 0)
     ELSE /\ Goto(c, [op |-> "createResume",
                      pc |-> IF users[auth[c]] = NoDoc THEN "setUser"
                             ELSE "setResume",
                      userId |-> auth[c], resumeData |-> resumeData])
          /\ UNCHANGED result
  /\ UNCHANGED <<hook, auth, users, userSettings, resumes, sharedResumes,
                 nextId, now, builder, ghost, analytics>>

createResume_setUser(c) ==
  /\ At(c, "createResume", "setUser")
  /\ LET userId == proc[c].userId
         allowed == IF users[userId] = NoDoc THEN AllowUserCreate(auth[c])
                    ELSE AllowUserRead(auth[c], userId)
     IN IF allowed
        THEN /\ users' = [users EXCEPT ![userId] = BareUserProfile(userId)]
             /\ Goto(c, [proc[c] EXCEPT !.pc = "setResume"])
             /\ UNCHANGED result
        ELSE /\ Finish(c, "createResume", "permission-denied", 0)
             /\ UNCHANGED users
  /\ UNCHANGED <<hook, auth, userSettings, resumes, sharedResumes, nextId,
                 now, builder, ghost, analytics>>

createResume_setResume(c, maxNew) ==
  /\ At(c, "createResume", "setResume")
  /\ nextId <= MaxResumes /\ ghost.created < maxNew    \* bounds of the model
  /\ LET userId == proc[c].userId
         newId == nextId
         ref == ResumeRef(userId, newId)
     IN IF AllowResume(auth[c], ref[1])
        THEN /\ resumes' = [resumes EXCEPT
                              ![ref] = NewResume(proc[c].resumeData, userId,
                                                   now)]
             /\ nextId' = nextId + 1
             /\ Goto(c, [op |-> "createResume", pc |-> "getSettings",
                         userId |-> userId,
                         resumeData |-> proc[c].resumeData, rid |-> newId])
             /\ ghost' = [ghost EXCEPT !.clean[ref] = TRUE,
                                       !.created = @ + 1,
                                       !.touched = Touch(userId, ref[1])]
             /\ UNCHANGED result
        ELSE /\ Finish(c, "createResume", "permission-denied", 0)
             /\ UNCHANGED <<resumes, nextId, ghost>>
  /\ UNCHANGED <<hook, auth, users, userSettings, sharedResumes, now, builder,
                 analytics>>

createResume_getSettings(c) ==
  /\ At(c, "createResume", "getSettings")
  /\ IF AllowSettings(auth[c], proc[c].userId)
     THEN /\ Goto(c, [op |-> "createResume", pc |-> "writeSettings",
                      userId |-> proc[c].userId,
                      resumeData |-> proc[c].resumeData, rid |-> proc[c].rid,
                      userSettingsDoc |-> userSettings[proc[c].userId]])
          /\ UNCHANGED result
     ELSE Finish(c, "createResume", "permission-denied", proc[c].rid)
  /\ UNCHANGED <<hook, auth, users, userSettings, resumes, sharedResumes,
                 nextId, now, builder, ghost, analytics>>

\* the lists createResume writes when the settings document exists
createResume_updatedResumes(settings, newId) ==
  PushFront(newId, RecentResumes(settings), RecentResumesCap)
createResume_updatedTemplates(settings, resumeData) ==
  IF Get(resumeData, "templateId", "") # ""
  THEN PushFront(resumeData.templateId, RecentTemplates(settings),
                 RecentTemplatesCap)
  ELSE RecentTemplates(settings)

createResume_writeSettings(c) ==
  /\ At(c, "createResume", "writeSettings")
  /\ LET userId == proc[c].userId
         snap == proc[c].userSettingsDoc
         rd == proc[c].resumeData
         newId == proc[c].rid
     IN IF ~AllowSettings(auth[c], userId)
        THEN /\ Finish(c, "createResume", "permission-denied", newId)
             /\ UNCHANGED userSettings
        ELSE IF snap # NoDoc
        THEN \* updateDoc: the document exists (settings are never deleted)
             /\ userSettings' =
                  [userSettings EXCEPT
                     ![userId] = SetRecent(userSettings[userId],
                                   createResume_updatedResumes(snap, newId),
                                   createResume_updatedTemplates(snap, rd))]
             /\ Finish(c, "createResume", "ok", newId)
        ELSE /\ userSettings' =
                  [userSettings EXCEPT
                     ![userId] = NewUserSettings(userId, <<newId>>,
                                   IF Get(rd, "templateId", "") # ""
                                   THEN <<rd.templateId>> ELSE <<>>)]
             /\ Finish(c, "createResume", "ok", newId)
  /\ UNCHANGED <<hook, auth, users, resumes, sharedResumes, nextId, now,
                 builder, ghost, analytics>>

(***************************************************************************)
(* getResumeById (services/firebaseService)                                *)
(***************************************************************************)
getResumeById(c, resumeId) ==
  /\ proc[c] = Idle
  /\ IF auth[c] = NoUser
     THEN /\ result' = Res(c, "getResumeById", "User not authenticated", resumeId)
          /\ UNCHANGED ghost
     ELSE LET userId == auth[c]
              ref == ResumeRef(userId, resumeId)
          IN IF ~AllowResume(auth[c], ref[1])
             THEN /\ result' = Res(c, "getResumeById", "permission-denied", resumeId)
                  /\ UNCHANGED ghost
             ELSE /\ ghost' = [ghost EXCEPT !.touched = Touch(userId, ref[1])]
                  /\ IF resumes[ref] = NoDoc
                     THEN result' = Res(c, "getResumeById", "Resume not found", resumeId)
                     ELSE result' = [client |-> c, op |-> "getResumeById",
                                     status |-> "ok", rid |-> resumeId,
                                     userId |-> userId, data |-> resumes[ref]]
  /\ UNCHANGED <<hook, auth, users, userSettings, resumes, sharedResumes,
                 nextId, now, proc, before, builder, analytics>>

(***************************************************************************)
(* updateResume (services/firebaseService)                                 *)
(***************************************************************************)
\* a version counter that is written back without the increment
NewVersion_NoIncrement(currentResume) == Get(currentResume, "version", 0)
\* const newVersion = (currentResume.version || 0) + 1
NewVersion(currentResume) == Get(currentResume, "version", 0) + 1
\* resumeData.versions?.[0]?.changes || 'Updated resume'
ChangeNote(resumeData) ==
  IF Has(resumeData, "versions") /\ Len(resumeData.versions) > 0
     /\ Has(resumeData.versions[1], "changes")
  THEN resumeData.versions[1].changes ELSE "Updated resume"
\* versions: [...(currentResume.versions || []), newVersionEntry]
NewVersions(currentResume, resumeData) ==
  Append(Get(currentResume, "versions", <<>>),
         [versionNumber |-> NewVersion(currentResume),
          changes |-> ChangeNote(resumeData)])
\* the fields updateDoc writes: {...resumeData, version, versions}
UpdateFields(currentResume, resumeData, t) ==
  Merge(resumeData, [updatedAt |-> Timestamp(t),
                     version |-> NewVersion(currentResume),
                     versions |-> NewVersions(currentResume, resumeData)])

UpdateInFlight(ref) ==
  \E d \in Clients : /\ proc[d].op = "updateResume"
                     /\ ResumeRef(proc[d].userId, proc[d].rid) = ref

updateResume_getResume(c, resumeId, resumeData) ==
  /\ proc[c] = Idle
  /\ IF auth[c] = NoUser
     THEN /\ Finish(c, "updateResume", "User not authenticated", resumeId)
          /\ UNCHANGED ghost
     ELSE LET userId == auth[c]
              ref == ResumeRef(userId, resumeId)
          IN \* bounds of the model: versions and calls per resume
             /\ Get(resumes[ref], "version", 0) < MaxVersion
             /\ ghost.updCount[ref] < MaxVersion - 1
             /\ IF ~AllowResume(auth[c], ref[1])
                THEN /\ Finish(c, "updateResume", "permission-denied", resumeId)
                     /\ UNCHANGED ghost
                ELSE IF resumes[ref] = NoDoc
                THEN /\ Finish(c, "updateResume", "Resume not found", resumeId)
                     /\ ghost' = [ghost EXCEPT !.touched = Touch(userId, ref[1])]
                ELSE /\ Goto(c, [op |-> "updateResume", pc |-> "updateDoc",
                                 userId |-> userId, rid |-> resumeId,
                                 resumeData |-> resumeData,
                                 currentResume |-> resumes[ref]])
                     /\ ghost' = [ghost EXCEPT
                          !.touched = Touch(userId, ref[1]),
                          !.clean[ref] = @ /\ ~UpdateInFlight(ref)]
                     /\ UNCHANGED result
  /\ UNCHANGED <<hook, auth, users, userSettings, resumes, sharedResumes,
                 nextId, now, builder, analytics>>

\* an update that also rewrites the shared copy
updateResume_updateDoc_Propagates(c) ==
  /\ At(c, "updateResume", "updateDoc")
  /\ LET userId == proc[c].userId
         ref == ResumeRef(userId, proc[c].rid)
     IN IF ~AllowResume(auth[c], ref[1])
        THEN /\ Finish(c, "updateResume", "permission-denied", proc[c].rid)
             /\ UNCHANGED <<resumes, sharedResumes>>
        ELSE IF resumes[ref] = NoDoc
        THEN \* updateDoc of a document that does not exist is rejected
             /\ Finish(c, "updateResume", "not-found", proc[c].rid)
             /\ UNCHANGED <<resumes, sharedResumes>>
        ELSE /\ resumes' = [resumes EXCEPT
                  ![ref] = Merge(@, UpdateFields(proc[c].currentResume,
                                                 proc[c].resumeData, now))]
             /\ sharedResumes' = [sharedResumes EXCEPT ![proc[c].rid] =
                  IF @ = NoDoc THEN @
                  ELSE Merge(@, [f \in {"title", "content", "templateId"}
                                      \cap DOMAIN proc[c].resumeData |->
                                   proc[c].resumeData[f]])]
             /\ Goto(c, [proc[c] EXCEPT !.pc = "getSettings"])
             /\ UNCHANGED result
  /\ UNCHANGED <<hook, auth, users, userSettings, nextId, now, builder, ghost,
                 analytics>>

\* an update that takes the version and the history from the stored document
updateResume_updateDoc_FromStored(c) ==
  /\ At(c, "updateResume", "updateDoc")
  /\ LET userId == proc[c].userId
         ref == ResumeRef(userId, proc[c].rid)
     IN IF ~AllowResume(auth[c], ref[1])
        THEN /\ Finish(c, "updateResume", "permission-denied", proc[c].rid)
             /\ UNCHANGED resumes
        ELSE IF resumes[ref] = NoDoc
        THEN /\ Finish(c, "updateResume", "not-found", proc[c].rid)
             /\ UNCHANGED resumes
        ELSE /\ resumes' = [resumes EXCEPT
                  ![ref] = Merge(@, UpdateFields(@, proc[c].resumeData, now))]
             /\ Goto(c, [proc[c] EXCEPT !.pc = "getSettings"])
             /\ UNCHANGED result
  /\ UNCHANGED <<hook, auth, users, userSettings, sharedResumes, nextId, now,
                 builder, ghost, analytics>>

updateResume_updateDoc(c) ==
  /\ At(c, "updateResume", "updateDoc")
  /\ LET userId == proc[c].userId
         ref == ResumeRef(userId, proc[c].rid)
     IN IF ~AllowResume(auth[c], ref[1])
        THEN /\ Finish(c, "updateResume", "permission-denied", proc[c].rid)
             /\ UNCHANGED resumes
        ELSE IF resumes[ref] = NoDoc
        THEN \* updateDoc of a document that does not exist is rejected
             /\ Finish(c, "updateResume", "not-found", proc[c].rid)
             /\ UNCHANGED resumes
        ELSE /\ resumes' = [resumes EXCEPT
                  ![ref] = Merge(@, UpdateFields(proc[c].currentResume,
                                                 proc[c].resumeData, now))]
             /\ Goto(c, [proc[c] EXCEPT !.pc = "getSettings"])
             /\ UNCHANGED result
  /\ UNCHANGED <<hook, auth, users, userSettings, sharedResumes, nextId, now,
                 builder, ghost, analytics>>

updateResume_getSettings(c) ==
  /\ At(c, "updateResume", "getSettings")
  /\ LET userId == proc[c].userId
         ref == ResumeRef(userId, proc[c].rid)
     IN IF ~AllowSettings(auth[c], userId)
        THEN /\ Finish(c, "updateResume", "permission-denied", proc[c].rid)
             /\ ghost' = [ghost EXCEPT !.clean[ref] = FALSE]
        ELSE IF userSettings[userId] = NoDoc
        THEN /\ Finish(c, "updateResume", "ok", proc[c].rid)
             /\ ghost' = [ghost EXCEPT !.updCount[ref] = @ + 1]
        ELSE /\ Goto(c, [op |-> "updateResume", pc |-> "updateSettings",
                         userId |-> userId, rid |-> proc[c].rid,
                         userSettingsDoc |-> userSettings[userId]])
             /\ UNCHANGED <<result, ghost>>
  /\ UNCHANGED <<hook, auth, users, userSettings, resumes, sharedResumes,
                 nextId, now, builder, analytics>>

updateResume_updateSettings(c) ==
  /\ At(c, "updateResume", "updateSettings")
  /\ LET userId == proc[c].userId
         ref == ResumeRef(userId, proc[c].rid)
     IN IF ~AllowSettings(auth[c], userId)
        THEN /\ Finish(c, "updateResume", "permission-denied", proc[c].rid)
             /\ ghost' = [ghost EXCEPT !.clean[ref] = FALSE]
             /\ UNCHANGED userSettings
        ELSE /\ userSettings' = [userSettings EXCEPT
                  ![userId] = SetRecentResumes(@,
                     PushFront(proc[c].rid,
                               RecentResumes(proc[c].userSettingsDoc),
                               RecentResumesCap))]
             /\ Finish(c, "updateResume", "ok", proc[c].rid)
             /\ ghost' = [ghost EXCEPT !.updCount[ref] = @ + 1]
  /\ UNCHANGED <<hook, auth, users, resumes, sharedResumes, nextId, now,
                 builder, analytics>>

(***************************************************************************)
(* deleteResume (services/firebaseService)                                 *)
(***************************************************************************)
\* a delete that also removes the shared copy
deleteResume_deleteDoc_Cascade(c, resumeId) ==
  /\ proc[c] = Idle
  /\ IF auth[c] = NoUser
     THEN /\ Finish(c, "deleteResume", "User not authenticated", resumeId)
          /\ UNCHANGED <<resumes, sharedResumes, ghost>>
     ELSE LET userId == auth[c]
              ref == ResumeRef(userId, resumeId)
          IN IF ~AllowResume(auth[c], ref[1])
             THEN /\ Finish(c, "deleteResume", "permission-denied", resumeId)
                  /\ UNCHANGED <<resumes, sharedResumes, ghost>>
             ELSE /\ resumes' = [resumes EXCEPT ![ref] = NoDoc]
                  /\ sharedResumes' = [sharedResumes EXCEPT ![resumeId] = NoDoc]
                  /\ Goto(c, [op |-> "deleteResume", pc |-> "getSettings",
                              userId |-> userId, rid |-> resumeId])
                  /\ ghost' = [ghost EXCEPT !.touched = Touch(userId, ref[1]),
                                            !.clean[ref] = FALSE]
                  /\ UNCHANGED result
  /\ UNCHANGED <<hook, auth, users, userSettings, nextId, now, builder,
                 analytics>>

deleteResume_deleteDoc(c, resumeId) ==
  /\ proc[c] = Idle
  /\ IF auth[c] = NoUser
     THEN /\ Finish(c, "deleteResume", "User not authenticated", resumeId)
          /\ UNCHANGED <<resumes, ghost>>
     ELSE LET userId == auth[c]
              ref == ResumeRef(userId, resumeId)
          IN IF ~AllowResume(auth[c], ref[1])
             THEN /\ Finish(c, "deleteResume", "permission-denied", resumeId)
                  /\ UNCHANGED <<resumes, ghost>>
             ELSE /\ resumes' = [resumes EXCEPT ![ref] = NoDoc]
                  /\ Goto(c, [op |-> "deleteResume", pc |-> "getSettings",
                              userId |-> userId, rid |-> resumeId])
                  /\ ghost' = [ghost EXCEPT !.touched = Touch(userId, ref[1]),
                                            !.clean[ref] = FALSE]
                  /\ UNCHANGED result
  /\ UNCHANGED <<hook, auth, users, userSettings, sharedResumes, nextId, now,
                 builder, analytics>>

deleteResume_getSettings(c) ==
  /\ At(c, "deleteResume", "getSettings")
  /\ LET userId == proc[c].userId
         ref == ResumeRef(userId, proc[c].rid)
     IN IF ~AllowSettings(auth[c], userId)
        THEN /\ Finish(c, "deleteResume", "permission-denied", proc[c].rid)
             /\ UNCHANGED ghost
        ELSE IF userSettings[userId] = NoDoc
        THEN /\ Finish(c, "deleteResume", "ok", proc[c].rid)
             /\ ghost' = [ghost EXCEPT !.deleted = @ \cup {ref}]
        ELSE /\ Goto(c, [op |-> "deleteResume", pc |-> "updateSettings",
                         userId |-> userId, rid |-> proc[c].rid,
                         userSettingsDoc |-> userSettings[userId]])
             /\ UNCHANGED <<result, ghost>>
  /\ UNCHANGED <<hook, auth, users, userSettings, resumes, sharedResumes,
                 nextId, now, builder, analytics>>

\* a delete that filters the list stored at the time of the write
deleteResume_updateSettings_FromStored(c) ==
  /\ At(c, "deleteResume", "updateSettings")
  /\ LET userId == proc[c].userId
         ref == ResumeRef(userId, proc[c].rid)
     IN IF ~AllowSettings(auth[c], userId)
        THEN /\ Finish(c, "deleteResume", "permission-denied", proc[c].rid)
             /\ UNCHANGED <<userSettings, ghost>>
        ELSE /\ userSettings' = [userSettings EXCEPT
                  ![userId] = SetRecentResumes(@,
                     FilterNe(RecentResumes(@), proc[c].rid))]
             /\ Finish(c, "deleteResume", "ok", proc[c].rid)
             /\ ghost' = [ghost EXCEPT !.deleted = @ \cup {ref}]
  /\ UNCHANGED <<hook, auth, users, resumes, sharedResumes, nextId, now,
                 builder, analytics>>

deleteResume_updateSettings(c) ==
  /\ At(c, "deleteResume", "updateSettings")
  /\ LET userId == proc[c].userId
         ref == ResumeRef(userId, proc[c].rid)
     IN IF ~AllowSettings(auth[c], userId)
        THEN /\ Finish(c, "deleteResume", "permission-denied", proc[c].rid)
             /\ UNCHANGED <<userSettings, ghost>>
        ELSE /\ userSettings' = [userSettings EXCEPT
                  ![userId] = SetRecentResumes(@,
                     FilterNe(RecentResumes(proc[c].userSettingsDoc),
                              proc[c].rid))]
             /\ Finish(c, "deleteResume", "ok", proc[c].rid)
             /\ ghost' = [ghost EXCEPT !.deleted = @ \cup {ref}]
  /\ UNCHANGED <<hook, auth, users, resumes, sharedResumes, nextId, now,
                 builder, analytics>>

(***************************************************************************)
(* shareResume / unshareResume / getSharedResume                           *)
(***************************************************************************)
\* if (expiresInDays) { now + expiresInDays days } else null
ExpiresAt(expiresInDays, t) ==
  IF expiresInDays # Null /\ expiresInDays[1] # 0
  THEN Some(t + expiresInDays[1]) ELSE Null
\* `${window.location.origin}/shared/${resumeId}`
PublicUrl(resumeId) == <<"/shared/", resumeId>>
\* the snapshot setDoc writes to sharedResumes/{resumeId}
SharedDoc(resumeId, userId, resumeData, expiresInDays, t) ==
  Merge([resumeId |-> resumeId, userId |-> userId, createdAt |-> t,
         expiresAt |-> ExpiresAt(expiresInDays, t), viewCount |-> 0,
         publicUrl |-> PublicUrl(resumeId)],
        [f \in {"title", "content", "templateId"} \cap DOMAIN resumeData |->
           resumeData[f]])

\* the part of a resume or of its shared copy that a share copies
CopiedFields(d) ==
  [f \in {"title", "content", "templateId"} \cap DOMAIN d |-> d[f]]

ViewInFlight(resumeId) ==
  \E d \in Clients : proc[d].op = "getSharedResume" /\ proc[d].rid = resumeId

shareResume_getResume(c, resumeId, expiresInDays) ==
  /\ proc[c] = Idle
  /\ IF auth[c] = NoUser
     THEN /\ Finish(c, "shareResume", "User not authenticated", resumeId)
          /\ UNCHANGED ghost
     ELSE LET userId == auth[c]
              ref == ResumeRef(userId, resumeId)
          IN IF ~AllowResume(auth[c], ref[1])
             THEN /\ Finish(c, "shareResume", "permission-denied", resumeId)
                  /\ UNCHANGED ghost
             ELSE IF resumes[ref] = NoDoc
             THEN /\ Finish(c, "shareResume", "Resume not found", resumeId)
                  /\ ghost' = [ghost EXCEPT !.touched = Touch(userId, ref[1])]
             ELSE /\ Goto(c, [op |-> "shareResume", pc |-> "setDoc",
                              userId |-> userId, rid |-> resumeId,
                              expiresInDays |-> expiresInDays,
                              resumeData |-> resumes[ref]])
                  /\ ghost' = [ghost EXCEPT !.touched = Touch(userId, ref[1]),
                                            !.unshared[resumeId] = "no"]
                  /\ UNCHANGED result
  /\ UNCHANGED <<hook, auth, users, userSettings, resumes, sharedResumes,
                 nextId, now, builder, analytics>>

\* a share written with { merge: true } semantics over the counter and the
\* expiry of the document it finds
shareResume_setDoc_KeepsOld(c) ==
  /\ At(c, "shareResume", "setDoc")
  /\ LET resumeId == proc[c].rid
         newDoc == SharedDoc(resumeId, proc[c].userId, proc[c].resumeData,
                             proc[c].expiresInDays, now)
         old == sharedResumes[resumeId]
     IN IF ~AllowSharedSet(auth[c], old, newDoc)
        THEN /\ Finish(c, "shareResume", "permission-denied", resumeId)
             /\ UNCHANGED <<sharedResumes, ghost>>
        ELSE /\ sharedResumes' = [sharedResumes EXCEPT ![resumeId] =
                  IF old = NoDoc THEN newDoc
                  ELSE Merge(newDoc, [viewCount |-> old.viewCount,
                                      expiresAt |-> old.expiresAt])]
             /\ Goto(c, [proc[c] EXCEPT !.pc = "updateDoc"])
             /\ ghost' = [ghost EXCEPT
                  !.views[resumeId] = 0,
                  !.racy[resumeId] = ViewInFlight(resumeId),
                  !.shareDays[resumeId] = proc[c].expiresInDays,
                  !.sharedFrom[resumeId] = CopiedFields(proc[c].resumeData)]
             /\ UNCHANGED result
  /\ UNCHANGED <<hook, auth, users, userSettings, resumes, nextId, now,
                 builder, analytics>>

shareResume_setDoc(c) ==
  /\ At(c, "shareResume", "setDoc")
  /\ LET resumeId == proc[c].rid
         newDoc == SharedDoc(resumeId, proc[c].userId, proc[c].resumeData,
                             proc[c].expiresInDays, now)
     IN IF ~AllowSharedSet(auth[c], sharedResumes[resumeId], newDoc)
        THEN /\ Finish(c, "shareResume", "permission-denied", resumeId)
             /\ UNCHANGED <<sharedResumes, ghost>>
        ELSE /\ sharedResumes' = [sharedResumes EXCEPT ![resumeId] = newDoc]
             /\ Goto(c, [proc[c] EXCEPT !.pc = "updateDoc"])
             /\ ghost' = [ghost EXCEPT
                  !.views[resumeId] = 0,
                  !.racy[resumeId] = ViewInFlight(resumeId),
                  !.shareDays[resumeId] = proc[c].expiresInDays,
                  !.sharedFrom[resumeId] = CopiedFields(proc[c].resumeData)]
             /\ UNCHANGED result
  /\ UNCHANGED <<hook, auth, users, userSettings, resumes, nextId, now,
                 builder, analytics>>

shareResume_updateDoc(c) ==
  /\ At(c, "shareResume", "updateDoc")
  /\ LET ref == ResumeRef(proc[c].userId, proc[c].rid)
     IN IF ~AllowResume(auth[c], ref[1])
        THEN /\ Finish(c, "shareResume", "permission-denied", proc[c].rid)
             /\ UNCHANGED resumes
        ELSE IF resumes[ref] = NoDoc
        THEN /\ Finish(c, "shareResume", "not-found", proc[c].rid)
             /\ UNCHANGED resumes
        ELSE /\ resumes' = [resumes EXCEPT
                              ![ref] = Merge(@, [isPublic |-> TRUE])]
             /\ Finish(c, "shareResume", "ok", proc[c].rid)
  /\ UNCHANGED <<hook, auth, users, userSettings, sharedResumes, nextId, now,
                 builder, ghost, analytics>>

ShareInFlight(resumeId) ==
  \E d \in Clients : proc[d].op = "shareResume" /\ proc[d].rid = resumeId

\* an unshare that leaves the shared document in place
unshareResume_deleteDoc_KeepsDoc(c, resumeId) ==
  /\ proc[c] = Idle
  /\ IF auth[c] = NoUser
     THEN /\ Finish(c, "unshareResume", "User not authenticated", resumeId)
          /\ UNCHANGED <<sharedResumes, ghost>>
     ELSE IF ~AllowSharedUpdate(auth[c], sharedResumes[resumeId])
     THEN /\ Finish(c, "unshareResume", "permission-denied", resumeId)
          /\ UNCHANGED <<sharedResumes, ghost>>
     ELSE /\ UNCHANGED sharedResumes
          /\ Goto(c, [op |-> "unshareResume", pc |-> "updateDoc",
                      userId |-> auth[c], rid |-> resumeId])
          /\ ghost' = [ghost EXCEPT
               !.unshared[resumeId] =
                  IF ShareInFlight(resumeId) THEN "no" ELSE "deleted",
               !.sharedFrom[resumeId] = <<>>]
          /\ UNCHANGED result
  /\ UNCHANGED <<hook, auth, users, userSettings, resumes, nextId, now,
                 builder, analytics>>

unshareResume_deleteDoc(c, resumeId) ==
  /\ proc[c] = Idle
  /\ IF auth[c] = NoUser
     THEN /\ Finish(c, "unshareResume", "User not authenticated", resumeId)
          /\ UNCHANGED <<sharedResumes, ghost>>
     ELSE IF ~AllowSharedUpdate(auth[c], sharedResumes[resumeId])
     THEN /\ Finish(c, "unshareResume", "permission-denied", resumeId)
          /\ UNCHANGED <<sharedResumes, ghost>>
     ELSE /\ sharedResumes' = [sharedResumes EXCEPT ![resumeId] = NoDoc]
          /\ Goto(c, [op |-> "unshareResume", pc |-> "updateDoc",
                      userId |-> auth[c], rid |-> resumeId])
          /\ ghost' = [ghost EXCEPT
               !.unshared[resumeId] =
                  IF ShareInFlight(resumeId) THEN "no" ELSE "deleted",
               !.sharedFrom[resumeId] = <<>>]
          /\ UNCHANGED result
  /\ UNCHANGED <<hook, auth, users, userSettings, resumes, nextId, now,
                 builder, analytics>>

unshareResume_updateDoc(c) ==
  /\ At(c, "unshareResume", "updateDoc")
  /\ LET ref == ResumeRef(proc[c].userId, proc[c].rid)
     IN IF ~AllowResume(auth[c], ref[1])
        THEN /\ Finish(c, "unshareResume", "permission-denied", proc[c].rid)
             /\ UNCHANGED <<resumes, ghost>>
        ELSE IF resumes[ref] = NoDoc
        THEN /\ Finish(c, "unshareResume", "not-found", proc[c].rid)
             /\ UNCHANGED <<resumes, ghost>>
        ELSE /\ resumes' = [resumes EXCEPT
                              ![ref] = Merge(@, [isPublic |-> FALSE])]
             /\ Finish(c, "unshareResume", "ok", proc[c].rid)
             /\ ghost' = [ghost EXCEPT
                  !.touched = Touch(proc[c].userId, ref[1]),
                  !.unshared[proc[c].rid] =
                     IF @ = "deleted" THEN "yes" ELSE "no"]
  /\ UNCHANGED <<hook, auth, users, userSettings, sharedResumes, nextId, now,
                 builder, analytics>>

\* a reader that never finds a share expired
IsExpired_Never(sharedResumeData, t) == FALSE
\* sharedResumeData.expiresAt && sharedResumeData.expiresAt.toDate() < new Date()
IsExpired(sharedResumeData, t) ==
  /\ Get(sharedResumeData, "expiresAt", Null) # Null
  /\ sharedResumeData.expiresAt[1] < t

getSharedResume_getDoc(c, resumeId) ==
  /\ proc[c] = Idle
  /\ Get(sharedResumes[resumeId], "viewCount", 0) < MaxViews
  /\ IF sharedResumes[resumeId] = NoDoc
     THEN Finish(c, "getSharedResume", "Shared resume not found", resumeId)
     ELSE /\ Goto(c, [op |-> "getSharedResume", pc |-> "updateDoc",
                      rid |-> resumeId,
                      sharedResumeData |-> sharedResumes[resumeId]])
          /\ UNCHANGED result
  /\ UNCHANGED <<hook, auth, users, userSettings, resumes, sharedResumes,
                 nextId, now, builder, ghost, analytics>>

getSharedResume_updateDoc(c) ==
  /\ At(c, "getSharedResume", "updateDoc")
  /\ LET resumeId == proc[c].rid
         data == proc[c].sharedResumeData
     IN IF IsExpired(data, now)
        THEN /\ Finish(c, "getSharedResume", "This shared resume has expired",
                       resumeId)
             /\ UNCHANGED <<sharedResumes, ghost>>
        ELSE IF ~AllowSharedUpdate(auth[c], sharedResumes[resumeId])
        THEN /\ Finish(c, "getSharedResume", "permission-denied", resumeId)
             /\ UNCHANGED <<sharedResumes, ghost>>
        ELSE /\ sharedResumes' = [sharedResumes EXCEPT
                  ![resumeId] = Merge(@, [viewCount |->
                                   Get(data, "viewCount", 0) + 1])]
             /\ Finish(c, "getSharedResume", "ok", resumeId)
             /\ ghost' = [ghost EXCEPT !.views[resumeId] = @ + 1]
  /\ UNCHANGED <<hook, auth, users, userSettings, resumes, nextId, now,
                 builder, analytics>>

(***************************************************************************)
(* TemplateGallery.handleCreateResume (pages/TemplateGallery)              *)
(***************************************************************************)
\* the profile the gallery writes when none exists
GalleryUserProfile(userId) == [email |-> userId]
\* the resume document the gallery adds
GalleryResume(selectedTemplate, userId, t) ==
  [title |-> "Untitled Resume", template |-> selectedTemplate,
   updatedAt |-> IsoString(t), content |-> EmptyContent(userId)]
\* the settings the gallery writes when none exist
GallerySettings(userId, newId, selectedTemplate) ==
  [userId |-> userId,
   recentlyUsed |-> [resumes |-> <<newId>>, templates |-> <<selectedTemplate>>],
   preferences |-> "light-en"]
\* {...settings, recentlyUsed: {...settings.recentlyUsed, resumes, templates}}
GalleryUpdatedSettings(settings, newId, selectedTemplate) ==
  Merge(settings,
        [recentlyUsed |->
           Merge(Get(settings, "recentlyUsed", <<>>),
                 [resumes |-> PushFront(newId, RecentResumes(settings),
                                        RecentResumesCap),
                  templates |-> PushFront(selectedTemplate,
                                          RecentTemplates(settings),
                                          RecentTemplatesCap)])])

handleCreateResume_getUser(c, selectedTemplate) ==
  /\ proc[c] = Idle
  /\ auth[c] # NoUser      \* otherwise the page navigates to /login
  /\ Goto(c, [op |-> "handleCreateResume",
              pc |-> IF users[auth[c]] = NoDoc THEN "setUser" ELSE "addDoc",
              userId |-> auth[c], selectedTemplate |-> selectedTemplate])
  /\ UNCHANGED <<hook, auth, users, userSettings, resumes, sharedResumes,
                 nextId, now, builder, result, ghost, analytics>>

handleCreateResume_setUser(c) ==
  /\ At(c, "handleCreateResume", "setUser")
  /\ LET userId == proc[c].userId
         allowed == IF users[userId] = NoDoc THEN AllowUserCreate(auth[c])
                    ELSE AllowUserRead(auth[c], userId)
     IN IF allowed
        THEN /\ users' = [users EXCEPT ![userId] = GalleryUserProfile(userId)]
             /\ Goto(c, [proc[c] EXCEPT !.pc = "addDoc"])
             /\ UNCHANGED result
        ELSE /\ Finish(c, "handleCreateResume", "permission-denied", 0)
             /\ UNCHANGED users
  /\ UNCHANGED <<hook, auth, userSettings, resumes, sharedResumes, nextId,
                 now, builder, ghost, analytics>>

handleCreateResume_addDoc(c, maxNew) ==
  /\ At(c, "handleCreateResume", "addDoc")
  /\ nextId <= MaxResumes /\ ghost.created < maxNew    \* bounds of the model
  /\ LET userId == proc[c].userId
         ref == ResumeRef(userId, nextId)
     IN IF AllowResume(auth[c], ref[1])
        THEN /\ resumes' = [resumes EXCEPT
                  ![ref] = GalleryResume(proc[c].selectedTemplate, userId,
                                         now)]
             /\ nextId' = nextId + 1
             /\ Goto(c, [op |-> "handleCreateResume", pc |-> "getSettings",
                         userId |-> userId,
                         selectedTemplate |-> proc[c].selectedTemplate,
                         rid |-> nextId])
             /\ ghost' = [ghost EXCEPT !.clean[ref] = FALSE,
                                       !.created = @ + 1,
                                       !.touched = Touch(userId, ref[1])]
             /\ UNCHANGED result
        ELSE /\ Finish(c, "handleCreateResume", "permission-denied", 0)
             /\ UNCHANGED <<resumes, nextId, ghost>>
  /\ UNCHANGED <<hook, auth, users, userSettings, sharedResumes, now, builder,
                 analytics>>

handleCreateResume_getSettings(c) ==
  /\ At(c, "handleCreateResume", "getSettings")
  /\ IF AllowSettings(auth[c], proc[c].userId)
     THEN /\ Goto(c, [op |-> "handleCreateResume", pc |-> "setSettings",
                      userId |-> proc[c].userId,
                      selectedTemplate |-> proc[c].selectedTemplate,
                      rid |-> proc[c].rid,
                      userSettingsDoc |-> userSettings[proc[c].userId]])
          /\ UNCHANGED result
     ELSE Finish(c, "handleCreateResume", "permission-denied", proc[c].rid)
  /\ UNCHANGED <<hook, auth, users, userSettings, resumes, sharedResumes,
                 nextId, now, builder, ghost, analytics>>

handleCreateResume_setSettings(c) ==
  /\ At(c, "handleCreateResume", "setSettings")
  /\ LET userId == proc[c].userId
         snap == proc[c].userSettingsDoc
     IN IF ~AllowSettings(auth[c], userId)
        THEN /\ Finish(c, "handleCreateResume", "permission-denied", proc[c].rid)
             /\ UNCHANGED userSettings
        ELSE /\ userSettings' = [userSettings EXCEPT
                  ![userId] =
                     IF snap = NoDoc
                     THEN GallerySettings(userId, proc[c].rid,
                                          proc[c].selectedTemplate)
                     ELSE \* setDoc(..., {merge: true})
                          Merge(IF @ = NoDoc THEN <<>> ELSE @,
                                GalleryUpdatedSettings(snap, proc[c].rid,
                                   proc[c].selectedTemplate))]
             /\ Finish(c, "handleCreateResume", "ok", proc[c].rid)
  /\ UNCHANGED <<hook, auth, users, resumes, sharedResumes, nextId, now,
                 builder, ghost, analytics>>

(***************************************************************************)
(* Dashboard.handleDeleteResume (pages/Dashboard): the delete button of a  *)
(* listed resume.                                                          *)
(***************************************************************************)
handleDeleteResume(c, id) ==
  /\ proc[c] = Idle
  /\ auth[c] # NoUser                          \* if (!userId) return
  /\ LET userId == auth[c]
         ref == ResumeRef(userId, id)
     IN /\ resumes[ref] # NoDoc                \* the resume is listed
        /\ AllowResume(auth[c], ref[1])
        /\ resumes' = [resumes EXCEPT ![ref] = NoDoc]
        /\ ghost' = [ghost EXCEPT !.touched = Touch(userId, ref[1]),
                                  !.clean[ref] = FALSE,
                                  !.deleted = @ \cup {ref}]
        /\ result' = Res(c, "handleDeleteResume", "ok", id)
  /\ UNCHANGED <<hook, auth, users, userSettings, sharedResumes, nextId, now,
                 proc, before, builder, analytics>>

(***************************************************************************)
(* ResumeBuilder page: the loaded copy, local edits, and the writes of     *)
(* handleSave (Save button and auto-save) and handleTitleChange.           *)
(***************************************************************************)
ResumeBuilder_fetchResumeData(c, resumeId) ==
  /\ auth[c] # NoUser                   \* otherwise navigate('/login')
  /\ LET userId == auth[c]
         ref == ResumeRef(userId, resumeId)
     IN /\ AllowResume(auth[c], ref[1])
        /\ builder' = [builder EXCEPT ![c] =
             IF resumes[ref] = NoDoc
             THEN [open |-> TRUE, resumeId |-> resumeId, resumeData |-> Null,
                   saveStatus |-> "", error |-> "Resume not found"]
             ELSE [open |-> TRUE, resumeId |-> resumeId,
                   resumeData |-> Some(Merge(resumes[ref], [id |-> resumeId])),
                   saveStatus |-> "", error |-> ""]]
        /\ ghost' = [ghost EXCEPT !.touched = Touch(userId, ref[1])]
  /\ UNCHANGED <<hook, auth, users, userSettings, resumes, sharedResumes,
                 nextId, now, proc, before, result, analytics>>

updatePersonalInfo(c, value) ==
  /\ builder[c].open
  /\ builder[c].resumeData # Null
  /\ LET resumeData == builder[c].resumeData[1]
     IN /\ Has(resumeData, "content")
        /\ resumeData.content.personalInfo # value
        /\ builder' = [builder EXCEPT ![c].resumeData =
             Some(Merge(resumeData,
                   [content |-> Merge(resumeData.content,
                                      [personalInfo |-> value])]))]
  /\ UNCHANGED <<hook, auth, users, userSettings, resumes, sharedResumes,
                 nextId, now, proc, before, result, ghost, analytics>>

\* const dataToSave = { ...resumeData }; delete dataToSave.id
DataToSave(resumeData) == Without(resumeData, "id")

handleSave(c) ==
  /\ builder[c].open
  /\ builder[c].resumeData # Null        \* if (... || !resumeData) return
  /\ auth[c] # NoUser                    \* if (... || !auth.currentUser ...)
  /\ LET userId == auth[c]
         ref == ResumeRef(userId, builder[c].resumeId)
     IN IF AllowResume(auth[c], ref[1]) /\ resumes[ref] # NoDoc
        THEN /\ resumes' = [resumes EXCEPT
                  ![ref] = Merge(@, Merge(DataToSave(builder[c].resumeData[1]),
                                          [updatedAt |-> Timestamp(now)]))]
             /\ builder' = [builder EXCEPT ![c].saveStatus = "Saved"]
             /\ ghost' = [ghost EXCEPT !.touched = Touch(userId, ref[1]),
                                       !.clean[ref] = FALSE]
        ELSE /\ builder' = [builder EXCEPT ![c].saveStatus = "Error saving"]
             /\ UNCHANGED <<resumes, ghost>>
  /\ UNCHANGED <<hook, auth, users, userSettings, sharedResumes, nextId, now,
                 proc, before, result, analytics>>

handleTitleChange(c, resumeTitle) ==
  /\ builder[c].open
  /\ builder[c].resumeData # Null
  /\ resumeTitle # Get(builder[c].resumeData[1], "title", "")
  /\ auth[c] # NoUser
  /\ LET userId == auth[c]
         ref == ResumeRef(userId, builder[c].resumeId)
         updatedData == Merge(builder[c].resumeData[1], [title |-> resumeTitle])
     IN IF AllowResume(auth[c], ref[1]) /\ resumes[ref] # NoDoc
        THEN /\ resumes' = [resumes EXCEPT
                  ![ref] = Merge(@, [title |-> resumeTitle,
                                     updatedAt |-> Timestamp(now)])]
             /\ builder' = [builder EXCEPT
                  ![c].resumeData = Some(updatedData),
                  ![c].saveStatus = "Title updated"]
             /\ ghost' = [ghost EXCEPT !.touched = Touch(userId, ref[1])]
        ELSE /\ builder' = [builder EXCEPT
                  ![c].resumeData = Some(updatedData),
                  ![c].saveStatus = "Error updating title"]
             /\ UNCHANGED <<resumes, ghost>>
  /\ UNCHANGED <<hook, auth, users, userSettings, sharedResumes, nextId, now,
                 proc, before, result, analytics>>

(***************************************************************************)
(* ResumeBuilder, render by render.  builder[c] holds the useState values  *)
(* (loading, resumeData, autoSaveTimer), the values the last render closed *)
(* over (rendered), the states set since that render (changed), the timer  *)
(* that is set (timer, with the resumeData its callback closed over), the  *)
(* timers the effect cleanups clear (cleanup, fetchTimer), the getDoc      *)
(* reads in flight (fetches; reads issued while MaxFetches are in flight   *)
(* are not followed) and, as history, the number of edits, the last edit   *)
(* (lastEdit), the same while not yet written (edited) and whether the     *)
(* auto-save wrote the last edit (autoSaved).                              *)
(* A timer id is reused once no closure holds it.                          *)
(***************************************************************************)
Rendering(c) == Has(builder[c], "rendered")

ClearTimeout(timer, id) ==
  IF id # Null /\ timer # Null /\ timer[1].id = id[1] THEN Null ELSE timer

\* the first render and its effects: fetchResumeData() is called, the
\* auto-save effect returns at once (resumeData is null, loading is true)
ResumeBuilder_mount(c, resumeId) ==
  /\ builder[c] = NoBuilder
  /\ auth[c] # NoUser                   \* otherwise navigate('/login')
  /\ builder' = [builder EXCEPT ![c] =
       [open |-> TRUE, resumeId |-> resumeId, error |-> "", saveStatus |-> "",
        loading |-> TRUE, resumeData |-> Null, autoSaveTimer |-> Null,
        rendered |-> [loading |-> TRUE, resumeData |-> Null,
                      autoSaveTimer |-> Null],
        changed |-> {}, timer |-> Null, cleanup |-> Null, fetchTimer |-> Null,
        lastTimer |-> 0, fetches |-> <<Null>>,
        edits |-> 0, lastEdit |-> Null, edited |-> Null,
        autoSaved |-> FALSE]]
  /\ UNCHANGED <<hook, auth, users, userSettings, resumes, sharedResumes,
                 nextId, now, proc, before, result, ghost, analytics>>

\* a re-render after a state changed, and the effects whose dependencies
\* changed: the fetch effect ([resumeId, navigate, autoSaveTimer]) and the
\* auto-save effect ([resumeData, autoSaveTimer, handleSave, loading]),
\* cleanups first
ResumeBuilder_render(c) ==
  /\ Rendering(c)
  /\ builder[c].changed # {}
  /\ LET b == builder[c]
         r == [loading |-> b.loading, resumeData |-> b.resumeData,
               autoSaveTimer |-> b.autoSaveTimer]
         runFetch == "autoSaveTimer" \in b.changed
         \* return () => { if (autoSaveTimer) clearTimeout(autoSaveTimer) }
         t1 == IF runFetch THEN ClearTimeout(b.timer, b.fetchTimer)
               ELSE b.timer
         \* return () => { clearTimeout(timer) }
         t2 == ClearTimeout(t1, b.cleanup)
         \* fetchResumeData()
         fetches == IF runFetch /\ auth[c] # NoUser
                       /\ Len(b.fetches) < MaxFetches
                    THEN Append(b.fetches, Null) ELSE b.fetches
         fetchTimer == IF runFetch THEN r.autoSaveTimer ELSE b.fetchTimer
         id == (b.lastTimer % MaxTimers) + 1
     IN builder' = [builder EXCEPT ![c] =
          IF r.resumeData = Null \/ r.loading  \* if (!resumeData || loading)
          THEN [b EXCEPT !.rendered = r, !.changed = {}, !.timer = t2,
                         !.cleanup = Null, !.fetchTimer = fetchTimer,
                         !.fetches = fetches]
          ELSE \* clearTimeout(autoSaveTimer); setTimeout; setAutoSaveTimer
               [b EXCEPT !.rendered = r, !.changed = {"autoSaveTimer"},
                         !.timer = Some([id |-> id,
                                         resumeData |-> r.resumeData[1]]),
                         !.cleanup = Some(id), !.lastTimer = id,
                         !.autoSaveTimer = Some(id),
                         !.fetchTimer = fetchTimer, !.fetches = fetches]]
  /\ UNCHANGED <<hook, auth, users, userSettings, resumes, sharedResumes,
                 nextId, now, proc, before, result, ghost, analytics>>

\* await getDoc(resumeRef): the store answers one of the reads in flight
fetchResumeData_getDoc(c) ==
  /\ Rendering(c)
  /\ \E i \in 1..Len(builder[c].fetches) :
       /\ builder[c].fetches[i] = Null
       /\ builder' = [builder EXCEPT ![c].fetches[i] =
            Some(resumes[ResumeRef(auth[c], builder[c].resumeId)])]
  /\ UNCHANGED <<hook, auth, users, userSettings, resumes, sharedResumes,
                 nextId, now, proc, before, result, ghost, analytics>>

\* the rest of fetchResumeData once the read resolved
fetchResumeData_setResumeData(c) ==
  /\ Rendering(c)
  /\ \E i \in 1..Len(builder[c].fetches) :
       /\ builder[c].fetches[i] # Null
       /\ LET b == builder[c]
              data == b.fetches[i][1]
              rest == [j \in 1..(Len(b.fetches) - 1) |->
                         IF j < i THEN b.fetches[j] ELSE b.fetches[j + 1]]
              loaded == IF b.loading THEN {"loading"} ELSE {}
          IN builder' = [builder EXCEPT ![c] =
               IF data = NoDoc        \* if (!resumeSnap.exists())
               THEN [b EXCEPT !.error = "Resume not found",
                              !.loading = FALSE, !.fetches = rest,
                              !.changed = @ \cup loaded]
               ELSE [b EXCEPT !.resumeData =
                                Some(Merge(data, [id |-> b.resumeId])),
                              !.loading = FALSE, !.fetches = rest,
                              !.changed = @ \cup {"resumeData"} \cup loaded]]
  /\ UNCHANGED <<hook, auth, users, userSettings, resumes, sharedResumes,
                 nextId, now, proc, before, result, ghost, analytics>>

\* updatePersonalInfo as the rendered form calls it: setResumeData of a copy
\* of the resumeData of the last render
updatePersonalInfo_setResumeData(c, value) ==
  /\ Rendering(c)
  /\ ~builder[c].rendered.loading        \* if (loading) return <spinner>
  /\ builder[c].rendered.resumeData # Null
  /\ builder[c].edits < MaxEdits
  /\ LET b == builder[c]
         resumeData == b.rendered.resumeData[1]
     IN /\ Has(resumeData, "content")
        /\ resumeData.content.personalInfo # value
        /\ builder' = [builder EXCEPT ![c] =
             [b EXCEPT !.resumeData =
                         Some(Merge(resumeData,
                           [content |-> Merge(resumeData.content,
                                              [personalInfo |-> value])])),
                       !.changed = @ \cup {"resumeData"},
                       !.edits = @ + 1, !.lastEdit = Some(value),
                       !.edited = Some(value),
                       !.autoSaved = FALSE]]
  /\ UNCHANGED <<hook, auth, users, userSettings, resumes, sharedResumes,
                 nextId, now, proc, before, result, ghost, analytics>>

\* handleSave(isAutoSave) of the render that closed over resumeData
SaveRendered(c, resumeData, isAutoSave, timer) ==
  /\ auth[c] # NoUser                    \* if (... || !auth.currentUser ...)
  /\ LET b == builder[c]
         userId == auth[c]
         ref == ResumeRef(userId, b.resumeId)
         wrote == b.lastEdit # Null /\ Has(resumeData, "content")
                    /\ resumeData.content.personalInfo = b.lastEdit[1]
     IN IF AllowResume(auth[c], ref[1]) /\ resumes[ref] # NoDoc
        THEN /\ resumes' = [resumes EXCEPT
                  ![ref] = Merge(@, Merge(DataToSave(resumeData),
                                          [updatedAt |-> Timestamp(now)]))]
             /\ builder' = [builder EXCEPT ![c] =
                  [b EXCEPT !.saveStatus = IF isAutoSave THEN "Auto-saved"
                                           ELSE "Saved",
                            !.timer = timer,
                            !.edited = IF wrote THEN Null ELSE @,
                            !.autoSaved = @ \/ (wrote /\ isAutoSave)]]
             /\ ghost' = [ghost EXCEPT !.touched = Touch(userId, ref[1]),
                                       !.clean[ref] = FALSE]
        ELSE /\ builder' = [builder EXCEPT ![c] =
                  [b EXCEPT !.saveStatus = "Error saving", !.timer = timer]]
             /\ UNCHANGED <<resumes, ghost>>
  /\ UNCHANGED <<hook, auth, users, userSettings, sharedResumes, nextId, now,
                 proc, before, result, analytics>>

\* setTimeout(() => { handleSave(true) }, 3000): the timer id fires
autoSaveTimer_handleSave(c, id) ==
  /\ Rendering(c)
  /\ builder[c].timer # Null
  /\ builder[c].timer[1].id = id
  /\ SaveRendered(c, builder[c].timer[1].resumeData, TRUE, Null)

\* onClick={() => handleSave()}
handleSave_onClick(c) ==
  /\ Rendering(c)
  /\ ~builder[c].rendered.loading
  /\ builder[c].rendered.resumeData # Null   \* if (... || !resumeData) return
  /\ SaveRendered(c, builder[c].rendered.resumeData[1], FALSE,
                  builder[c].timer)

(***************************************************************************)
(* useFirestore: the authentication observer, and createUserProfile,       *)
(* getUserProfile and getUserSettings as it calls them.                    *)
(***************************************************************************)
\* catch (err) { setError(err.message) } ... setLoading(false)
Caught(c, message) ==
  hook' = [hook EXCEPT ![c].loading = FALSE, ![c].error = Some(message)]

\* setLoading(true); setError(null); setUser(null); setUserSettings(null);
\* setLoading(false)
SignedOutHook ==
  [loading |-> FALSE, error |-> Null, user |-> Null, userSettings |-> Null]

\* the callback up to its first request: the identity of the client
\* becomes firebaseUser
onAuthStateChanged(c, firebaseUser) ==
  /\ proc[c] = Idle
  /\ auth[c] # firebaseUser
  /\ auth[c] = NoUser \/ firebaseUser = NoUser
  /\ auth' = [auth EXCEPT ![c] = firebaseUser]
  /\ IF firebaseUser # NoUser
     THEN /\ hook' = [hook EXCEPT ![c].loading = TRUE, ![c].error = Null]
          /\ Goto(c, [op |-> "onAuthStateChanged", pc |-> "getDoc",
                      uid |-> firebaseUser])
     ELSE /\ hook' = [hook EXCEPT ![c] = SignedOutHook]
          /\ UNCHANGED <<proc, before>>
  /\ UNCHANGED <<users, userSettings, resumes, sharedResumes, nextId, now,
                 builder, result, ghost, analytics>>

\* createUserProfile fails: the promise rejects into the observer's catch
createUserProfile_fails(c, status) ==
  /\ Finish(c, "createUserProfile", status, 0)
  /\ Caught(c, status)

\* const userSnap = await getDoc(userRef)
createUserProfile_getDoc(c) ==
  /\ At(c, "onAuthStateChanged", "getDoc")
  /\ IF ~AllowUserRead(auth[c], proc[c].uid)
     THEN createUserProfile_fails(c, "permission-denied")
     ELSE /\ Goto(c, [proc[c] EXCEPT !.pc =
                        IF users[proc[c].uid] = NoDoc THEN "setUser"
                        ELSE "updateDoc"])
          /\ UNCHANGED <<result, hook>>
  /\ UNCHANGED <<auth, users, userSettings, resumes, sharedResumes, nextId,
                 now, builder, ghost, analytics>>

\* await setDoc(userRef, {uid, email, ..., isAdmin: false})
createUserProfile_setUser(c) ==
  /\ At(c, "onAuthStateChanged", "setUser")
  /\ LET uid == proc[c].uid
     IN IF ~(IF users[uid] = NoDoc THEN AllowUserCreate(auth[c])
             ELSE AllowUserRead(auth[c], uid))
        THEN /\ createUserProfile_fails(c, "permission-denied")
             /\ UNCHANGED users
        ELSE /\ users' = [users EXCEPT ![uid] = NewUserProfile(uid, now)]
             /\ Goto(c, [proc[c] EXCEPT !.pc = "setSettings"])
             /\ UNCHANGED <<result, hook>>
  /\ UNCHANGED <<auth, userSettings, resumes, sharedResumes, nextId, now,
                 builder, ghost, analytics>>

\* await setDoc(doc(db, 'userSettings', user.uid), {..., recentlyUsed: empty})
createUserProfile_setSettings(c) ==
  /\ At(c, "onAuthStateChanged", "setSettings")
  /\ LET uid == proc[c].uid
     IN IF ~AllowSettings(auth[c], uid)
        THEN /\ createUserProfile_fails(c, "permission-denied")
             /\ UNCHANGED userSettings
        ELSE /\ userSettings' = [userSettings EXCEPT
                                   ![uid] = NewUserSettings(uid, <<>>, <<>>)]
             /\ Goto(c, [proc[c] EXCEPT !.pc = "getUserProfile"])
             /\ result' = Res(c, "createUserProfile", "ok", 0)
             /\ UNCHANGED hook
  /\ UNCHANGED <<auth, users, resumes, sharedResumes, nextId, now, builder,
                 ghost, analytics>>

\* else await updateDoc(userRef, {lastLogin: serverTimestamp()})
createUserProfile_updateDoc(c) ==
  /\ At(c, "onAuthStateChanged", "updateDoc")
  /\ LET uid == proc[c].uid
     IN IF ~AllowUserRead(auth[c], uid)
        THEN /\ createUserProfile_fails(c, "permission-denied")
             /\ UNCHANGED users
        ELSE IF users[uid] = NoDoc
        THEN /\ createUserProfile_fails(c, "not-found")
             /\ UNCHANGED users
        ELSE /\ users' = [users EXCEPT ![uid] = Merge(@, [lastLogin |-> now])]
             /\ Goto(c, [proc[c] EXCEPT !.pc = "getUserProfile"])
             /\ result' = Res(c, "createUserProfile", "ok", 0)
             /\ UNCHANGED hook
  /\ UNCHANGED <<auth, userSettings, resumes, sharedResumes, nextId, now,
                 builder, ghost, analytics>>

\* getUserProfile: how the call ends
getUserProfile_status(c) ==
  IF auth[c] = NoUser THEN "User not authenticated"
  ELSE IF ~AllowUserRead(auth[c], auth[c]) THEN "permission-denied"
  ELSE IF users[auth[c]] = NoDoc THEN "User profile not found"
  ELSE "ok"

\* getUserSettings: how the call ends
getUserSettings_status(c) ==
  IF auth[c] = NoUser THEN "User not authenticated"
  ELSE IF ~AllowSettings(auth[c], auth[c]) THEN "permission-denied"
  ELSE IF userSettings[auth[c]] = NoDoc THEN "User settings not found"
  ELSE "ok"

\* const profileData = await firebaseService.getUserProfile()
onAuthStateChanged_getUserProfile(c) ==
  /\ At(c, "onAuthStateChanged", "getUserProfile")
  /\ IF getUserProfile_status(c) = "ok"
     THEN /\ Goto(c, [proc[c] EXCEPT !.pc = "getUserSettings"])
          /\ result' = Res(c, "getUserProfile", "ok", 0)
          /\ UNCHANGED hook
     ELSE /\ Finish(c, "getUserProfile", getUserProfile_status(c), 0)
          /\ Caught(c, getUserProfile_status(c))
  /\ UNCHANGED <<auth, users, userSettings, resumes, sharedResumes, nextId,
                 now, builder, ghost, analytics>>

\* setUser(profileData); const settings = await
\* firebaseService.getUserSettings(); setUserSettings(settings);
\* setLoading(false)
onAuthStateChanged_getUserSettings(c) ==
  /\ At(c, "onAuthStateChanged", "getUserSettings")
  /\ Finish(c, "getUserSettings", getUserSettings_status(c), 0)
  /\ IF getUserSettings_status(c) = "ok"
     THEN hook' = [hook EXCEPT ![c].loading = FALSE,
                               ![c].user = Some(proc[c].uid),
                               ![c].userSettings = Some(auth[c])]
     ELSE hook' = [hook EXCEPT ![c].loading = FALSE,
                               ![c].error = Some(getUserSettings_status(c)),
                               ![c].user = Some(proc[c].uid)]
  /\ UNCHANGED <<auth, users, userSettings, resumes, sharedResumes, nextId,
                 now, builder, ghost, analytics>>

\* the user signs out while the callback of the sign-in awaits a request:
\* the observer is called with null and runs to its end
onAuthStateChanged_signedOut(c) ==
  /\ proc[c] # Idle
  /\ proc[c].op = "onAuthStateChanged"
  /\ auth[c] # NoUser
  /\ auth' = [auth EXCEPT ![c] = NoUser]
  /\ hook' = [hook EXCEPT ![c] = SignedOutHook]
  /\ UNCHANGED <<users, userSettings, resumes, sharedResumes, nextId, now,
                 proc, before, builder, result, ghost, analytics>>

ObserverSteps(cs, who) ==
  \/ \E c \in cs, u \in who : onAuthStateChanged(c, u)
  \/ \E c \in cs : createUserProfile_getDoc(c)
  \/ \E c \in cs : createUserProfile_setUser(c)
  \/ \E c \in cs : createUserProfile_setSettings(c)
  \/ \E c \in cs : createUserProfile_updateDoc(c)
  \/ \E c \in cs : onAuthStateChanged_getUserProfile(c)
  \/ \E c \in cs : onAuthStateChanged_getUserSettings(c)

(***************************************************************************)
(* getResumes, getUserProfile, updateUserProfile, getUserSettings and      *)
(* updateUserSettings (services/firebaseService), called on their own.     *)
(***************************************************************************)
\* the ids of the documents of users/{userId}/resumes
ResumesOf(userId) == {r \in ResumeIds : resumes[<<userId, r>>] # NoDoc}

\* the order of the store on the values of a field: values of different
\* types by type (timestamps before strings), values of one type by value
ValueLess(v, w) ==
  \/ v.type = "timestamp" /\ w.type = "string"
  \/ v.type = w.type /\ v.t < w.t

\* query(collection(db, `users/${userId}/resumes`), orderBy('updatedAt',
\* 'desc')): the documents that have the field, in an order the store may
\* return them
QueryResumes(userId) ==
  LET ids == {r \in ResumesOf(userId) :
                Has(resumes[<<userId, r>>], "updatedAt")}
      n == Cardinality(ids)
  IN {seq \in [1..n -> ids] :
        /\ \A i, j \in 1..n : i # j => seq[i] # seq[j]
        /\ \A i, j \in 1..n :
             i < j => ~ValueLess(resumes[<<userId, seq[i]>>].updatedAt,
                                 resumes[<<userId, seq[j]>>].updatedAt)}

\* getResumes: how the call ends
getResumes_status(c) ==
  IF auth[c] = NoUser THEN "User not authenticated"
  ELSE IF ~AllowResume(auth[c], auth[c]) THEN "permission-denied"
  ELSE "ok"

getResumes(c) ==
  /\ proc[c] = Idle
  /\ IF getResumes_status(c) # "ok"
     THEN /\ Finish(c, "getResumes", getResumes_status(c), 0)
          /\ UNCHANGED ghost
     ELSE /\ UNCHANGED <<proc, before>>
          /\ \E seq \in QueryResumes(auth[c]) :
               result' = [client |-> c, op |-> "getResumes", status |-> "ok",
                          rid |-> 0, userId |-> auth[c], ids |-> seq]
          /\ ghost' = [ghost EXCEPT !.touched = Touch(auth[c], auth[c])]
  /\ UNCHANGED <<hook, auth, users, userSettings, resumes, sharedResumes,
                 nextId, now, builder, analytics>>

\* useFirestore.getResumes: try { return await firebaseService.getResumes() }
\* catch (err) { setError(err.message); setLoading(false); return [] }
useFirestore_getResumes(c) ==
  /\ proc[c] = Idle
  /\ IF getResumes_status(c) # "ok"
     THEN /\ result' = [client |-> c, op |-> "useFirestore_getResumes",
                        status |-> "ok", rid |-> 0, ids |-> <<>>]
          /\ Caught(c, getResumes_status(c))
          /\ UNCHANGED ghost
     ELSE /\ \E seq \in QueryResumes(auth[c]) :
               result' = [client |-> c, op |-> "useFirestore_getResumes",
                          status |-> "ok", rid |-> 0, ids |-> seq]
          /\ hook' = [hook EXCEPT ![c].loading = FALSE, ![c].error = Null]
          /\ ghost' = [ghost EXCEPT !.touched = Touch(auth[c], auth[c])]
  /\ UNCHANGED <<auth, users, userSettings, resumes, sharedResumes, nextId,
                 now, proc, before, builder, analytics>>

getUserProfile(c) ==
  /\ proc[c] = Idle
  /\ Finish(c, "getUserProfile", getUserProfile_status(c), 0)
  /\ UNCHANGED <<hook, auth, users, userSettings, resumes, sharedResumes,
                 nextId, now, builder, ghost, analytics>>

\* an update that addresses the profile without asking for the identity
updateUserProfile_NoIdentityCheck(c, profileData) ==
  /\ proc[c] = Idle
  /\ LET userId == auth[c]
     IN IF ~AllowUserRead(auth[c], userId)
        THEN /\ Finish(c, "updateUserProfile", "permission-denied", 0)
             /\ UNCHANGED users
        ELSE IF users[userId] = NoDoc
        THEN /\ Finish(c, "updateUserProfile", "not-found", 0)
             /\ UNCHANGED users
        ELSE /\ users' = [users EXCEPT ![userId] =
                            Merge(@, Merge(profileData, [updatedAt |-> now]))]
             /\ Finish(c, "updateUserProfile", "ok", 0)
  /\ UNCHANGED <<hook, auth, userSettings, resumes, sharedResumes, nextId,
                 now, builder, ghost, analytics>>

\* await updateDoc(doc(db, 'users', userId), {...profileData, updatedAt})
updateUserProfile(c, profileData) ==
  /\ proc[c] = Idle
  /\ IF auth[c] = NoUser
     THEN /\ Finish(c, "updateUserProfile", "User not authenticated", 0)
          /\ UNCHANGED users
     ELSE LET userId == auth[c]
          IN IF ~AllowUserRead(auth[c], userId)
             THEN /\ Finish(c, "updateUserProfile", "permission-denied", 0)
                  /\ UNCHANGED users
             ELSE IF users[userId] = NoDoc
             THEN /\ Finish(c, "updateUserProfile", "not-found", 0)
                  /\ UNCHANGED users
             ELSE /\ users' = [users EXCEPT ![userId] =
                       Merge(@, Merge(profileData, [updatedAt |-> now]))]
                  /\ Finish(c, "updateUserProfile", "ok", 0)
  /\ UNCHANGED <<hook, auth, userSettings, resumes, sharedResumes, nextId,
                 now, builder, ghost, analytics>>

getUserSettings(c) ==
  /\ proc[c] = Idle
  /\ Finish(c, "getUserSettings", getUserSettings_status(c), 0)
  /\ UNCHANGED <<hook, auth, users, userSettings, resumes, sharedResumes,
                 nextId, now, builder, ghost, analytics>>

\* await updateDoc(doc(db, 'userSettings', userId), settingsData)
updateUserSettings(c, settingsData) ==
  /\ proc[c] = Idle
  /\ IF auth[c] = NoUser
     THEN /\ Finish(c, "updateUserSettings", "User not authenticated", 0)
          /\ UNCHANGED userSettings
     ELSE LET userId == auth[c]
          IN IF ~AllowSettings(auth[c], userId)
             THEN /\ Finish(c, "updateUserSettings", "permission-denied", 0)
                  /\ UNCHANGED userSettings
             ELSE IF userSettings[userId] = NoDoc
             THEN /\ Finish(c, "updateUserSettings", "not-found", 0)
                  /\ UNCHANGED userSettings
             ELSE /\ userSettings' = [userSettings EXCEPT ![userId] =
                                        Merge(@, settingsData)]
                  /\ Finish(c, "updateUserSettings", "ok", 0)
  /\ UNCHANGED <<hook, auth, users, resumes, sharedResumes, nextId, now,
                 builder, ghost, analytics>>

(***************************************************************************)
(* logAnalyticsEvent (services/firebaseService) and the hook's logEvent.   *)
(***************************************************************************)
\* {userId: auth.currentUser.uid, timestamp, eventType, ...data, device, browser}
AnalyticsDoc(userId, eventType, data, t) ==
  Merge(Merge([userId |-> userId, timestamp |-> t, eventType |-> eventType],
              data),
        [device |-> "userAgent", browser |-> "browser"])

\* how the setDoc of logAnalyticsEvent ends: "none" when nothing is sent
logAnalyticsEvent_status(c, eventType, data, unavailable) ==
  IF auth[c] = NoUser THEN "none"
  ELSE IF ~AllowAnalyticsCreate(auth[c],
                                AnalyticsDoc(auth[c], eventType, data, now))
  THEN "permission-denied"
  ELSE IF unavailable THEN "unavailable"
  ELSE "ok"

\* a logEvent that reports a failed write like the other operations of the hook
logEvent_SetsError(c, eventType, data, unavailable) ==
  /\ Len(analytics) < MaxEvents
  /\ LET status == logAnalyticsEvent_status(c, eventType, data, unavailable)
     IN /\ analytics' =
             IF status = "ok"
             THEN Append(analytics, AnalyticsDoc(auth[c], eventType, data, now))
             ELSE analytics
        /\ result' = [client |-> c, op |-> "logEvent", rid |-> 0,
                      status |-> IF status \in {"ok", "none"} THEN "ok"
                                 ELSE status,
                      write |-> status]
        /\ IF status \in {"ok", "none"} THEN UNCHANGED hook
           ELSE Caught(c, status)
  /\ UNCHANGED <<auth, users, userSettings, resumes, sharedResumes, nextId,
                 now, proc, before, builder, ghost>>

\* try { await firebaseService.logAnalyticsEvent(eventType, data) }
\* catch (err) { console.error(...) }
logEvent(c, eventType, data, unavailable) ==
  /\ Len(analytics) < MaxEvents
  /\ LET status == logAnalyticsEvent_status(c, eventType, data, unavailable)
     IN /\ analytics' =
             IF status = "ok"
             THEN Append(analytics, AnalyticsDoc(auth[c], eventType, data, now))
             ELSE analytics
        /\ result' = [client |-> c, op |-> "logEvent", rid |-> 0,
                      status |-> "ok", write |-> status]
  /\ UNCHANGED <<hook, auth, users, userSettings, resumes, sharedResumes,
                 nextId, now, proc, before, builder, ghost>>

(***************************************************************************)
(* getTemplates and getDefaultTemplates (services/firebaseService).  The   *)
(* application never writes the catalogs; the documents a query finds in   *)
(* its collection are the argument catalog, a sequence in the order of the *)
(* document ids.                                                           *)
(***************************************************************************)
\* where('category', '==', category) if (category);
\* where('premium', '==', isPremium) if (isPremium !== undefined)
TemplateMatches(doc, category, isPremium) ==
  /\ (category # Null /\ category # <<"">>) => doc.category = category[1]
  /\ isPremium # Null => doc.premium = isPremium[1]

\* query(collection(db, 'templates'), ...constraints, orderBy('popularity',
\* 'desc')): the matching documents, in an order the store may return them
QueryTemplates(catalog, category, isPremium) ==
  LET ids == {i \in DOMAIN catalog :
                /\ Has(catalog[i], "popularity")
                /\ TemplateMatches(catalog[i], category, isPremium)}
      n == Cardinality(ids)
  IN {seq \in [1..n -> ids] :
        /\ \A i, j \in 1..n : i # j => seq[i] # seq[j]
        /\ \A i, j \in 1..n :
             i < j => catalog[seq[i]].popularity >= catalog[seq[j]].popularity}

getTemplates(c, catalog, category, isPremium) ==
  /\ proc[c] = Idle
  /\ IF ~AllowTemplateRead(auth[c])
     THEN result' = [client |-> c, op |-> "getTemplates", rid |-> 0,
                     status |-> "permission-denied", catalog |-> catalog,
                     category |-> category, isPremium |-> isPremium]
     ELSE \E seq \in QueryTemplates(catalog, category, isPremium) :
            result' = [client |-> c, op |-> "getTemplates", rid |-> 0,
                       status |-> "ok", catalog |-> catalog,
                       category |-> category, isPremium |-> isPremium,
                       templateIds |-> seq]
  /\ UNCHANGED <<hook, auth, users, userSettings, resumes, sharedResumes,
                 nextId, now, proc, before, builder, ghost, analytics>>

\* getDocs(collection(db, 'defaultTemplates')): every document, by id
getDefaultTemplates(c, catalog) ==
  /\ proc[c] = Idle
  /\ IF ~AllowTemplateRead(auth[c])
     THEN result' = [client |-> c, op |-> "getDefaultTemplates", rid |-> 0,
                     status |-> "permission-denied", catalog |-> catalog]
     ELSE result' = [client |-> c, op |-> "getDefaultTemplates", rid |-> 0,
                     status |-> "ok", catalog |-> catalog,
                     templateIds |-> [i \in DOMAIN catalog |-> i]]
  /\ UNCHANGED <<hook, auth, users, userSettings, resumes, sharedResumes,
                 nextId, now, proc, before, builder, ghost, analytics>>

(***************************************************************************)
(* Inputs of the operations.                                               *)
(***************************************************************************)
CreateInputs ==
  {<<>>, [templateId |-> "classic"], [title |-> "T1", content |-> FilledContent]}
UpdateInputs ==
  {[title |-> "T1"], [versions |-> <<[changes |-> "note"]>>]}
DaysInputs == {Null, Some(0), Some(1)}
TitleInputs == {"T1"}
InfoInputs == {"edited"}

EventInputs == {<<>>, [page |-> "gallery"], [userId |-> "B"]}
\* documents of a template catalog, and catalogs of up to MaxTemplates of them
TemplateDocs ==
  [category : {"modern", "classic"}, premium : BOOLEAN, popularity : 1..2]
Catalogs == UNION {[1..n -> TemplateDocs] : n \in 0..MaxTemplates}
CategoryInputs == {Null, <<"">>, <<"modern">>}
PremiumInputs == {Null, <<TRUE>>, <<FALSE>>}
ProfileInputs == {[displayName |-> "N"], [isAdmin |-> TRUE]}
SettingsInputs == {[theme |-> "dark"]}

(***************************************************************************)
(* The steps of each operation, for the clients cs, the ids and the inputs.*)
(***************************************************************************)
CreateSteps(cs, inputs, maxNew) ==
  \/ \E c \in cs, rd \in inputs : createResume_getUser(c, rd)
  \/ \E c \in cs : createResume_setUser(c)
  \/ \E c \in cs : createResume_setResume(c, maxNew)
  \/ \E c \in cs : createResume_getSettings(c)
  \/ \E c \in cs : createResume_writeSettings(c)

UpdateSteps(cs, ids, inputs) ==
  \/ \E c \in cs, r \in ids, rd \in inputs :
        updateResume_getResume(c, r, rd)
  \/ \E c \in cs : updateResume_updateDoc(c)
  \/ \E c \in cs : updateResume_getSettings(c)
  \/ \E c \in cs : updateResume_updateSettings(c)

DeleteSteps(cs, ids) ==
  \/ \E c \in cs, r \in ids : deleteResume_deleteDoc(c, r)
  \/ \E c \in cs : deleteResume_getSettings(c)
  \/ \E c \in cs : deleteResume_updateSettings(c)

ShareSteps(cs, ids, days) ==
  \/ \E c \in cs, r \in ids, d \in days : shareResume_getResume(c, r, d)
  \/ \E c \in cs : shareResume_setDoc(c)
  \/ \E c \in cs : shareResume_updateDoc(c)

UnshareSteps(cs, ids) ==
  \/ \E c \in cs, r \in ids : unshareResume_deleteDoc(c, r)
  \/ \E c \in cs : unshareResume_updateDoc(c)

ViewSteps(cs, ids) ==
  \/ \E c \in cs, r \in ids : getSharedResume_getDoc(c, r)
  \/ \E c \in cs : getSharedResume_updateDoc(c)

GallerySteps(cs, templates, maxNew) ==
  \/ \E c \in cs, t \in templates : handleCreateResume_getUser(c, t)
  \/ \E c \in cs : handleCreateResume_setUser(c)
  \/ \E c \in cs : handleCreateResume_addDoc(c, maxNew)
  \/ \E c \in cs : handleCreateResume_getSettings(c)
  \/ \E c \in cs : handleCreateResume_setSettings(c)

BuilderSteps(cs, ids) ==
  \/ \E c \in cs, r \in ids : ResumeBuilder_fetchResumeData(c, r)
  \/ \E c \in cs, v \in InfoInputs : updatePersonalInfo(c, v)
  \/ \E c \in cs : handleSave(c)
  \/ \E c \in cs, t \in TitleInputs : handleTitleChange(c, t)

AccountSteps(cs, profiles, settings) ==
  \/ \E c \in cs : getResumes(c)
  \/ \E c \in cs : getUserProfile(c)
  \/ \E c \in cs, pd \in profiles : updateUserProfile(c, pd)
  \/ \E c \in cs : getUserSettings(c)
  \/ \E c \in cs, sd \in settings : updateUserSettings(c, sd)

\* the state after the clients signed in as who(c), with the history of the
\* operations of the clients cs recorded
InitObserved(who, cs) ==
  /\ auth = who
  /\ users = [u \in Users |-> NoDoc]
  /\ userSettings = [u \in Users |-> NoDoc]
  /\ resumes = [k \in ResumeKeys |-> NoDoc]
  /\ sharedResumes = [r \in ResumeIds |-> NoDoc]
  /\ nextId = 1
  /\ now = 0
  /\ proc = [c \in Clients |-> Idle]
  /\ builder = [c \in Clients |-> NoBuilder]
  /\ result = NoResult
  /\ hook = [c \in Clients |-> NewHook]
  /\ analytics = <<>>
  /\ before = [c \in cs |-> <<>>]
  /\ ghost = GhostInit

\* the state after the clients signed in as who(c)
InitSignedIn(who) == InitObserved(who, {})

(***************************************************************************)
(* SpecVersions: two tabs of one owner; createResume, updateResume, and    *)
(* the resume builder open in the first tab.                               *)
(***************************************************************************)
VersionsIds == 1..VersionsResumes
InitVersions == InitSignedIn([c \in Clients |-> "A"])
NextVersions ==
  \/ CreateSteps(Clients, {<<>>}, VersionsResumes)
  \/ UpdateSteps(Clients, VersionsIds, UpdateInputs)
  \/ BuilderSteps({1}, VersionsIds)
SpecVersions == InitVersions /\ [][NextVersions]_vars

(***************************************************************************)
(* SpecRecency: two tabs of one owner; the recency lists under create,     *)
(* update and delete.  A behaviour starts either from the empty store or   *)
(* from the store as RecentResumesCap - 1 createResume calls in sequence   *)
(* leave it, so that the next creations fill the lists and overflow them.  *)
(***************************************************************************)
SeedTemplates == <<"modern", "executive", "creative", "technical">>
SeedInput(i) == [templateId |-> SeedTemplates[((i - 1) % Len(SeedTemplates)) + 1]]
RECURSIVE SeedSettings(_)
\* userSettings/A after createResume(SeedInput(1)), ..., createResume(SeedInput(n))
SeedSettings(n) ==
  IF n = 0 THEN NoDoc
  ELSE LET prev == SeedSettings(n - 1)
       IN IF prev = NoDoc
          THEN NewUserSettings("A", <<n>>, <<SeedInput(n).templateId>>)
          ELSE SetRecent(prev, createResume_updatedResumes(prev, n),
                         createResume_updatedTemplates(prev, SeedInput(n)))

InitSeeded(n) ==
  /\ auth = [c \in Clients |-> "A"]
  /\ users = [u \in Users |-> IF u = "A" /\ n > 0 THEN BareUserProfile(u)
                              ELSE NoDoc]
  /\ userSettings = [u \in Users |-> IF u = "A" THEN SeedSettings(n) ELSE NoDoc]
  /\ resumes = [k \in ResumeKeys |->
                  IF k[1] = "A" /\ k[2] <= n
                  THEN NewResume(SeedInput(k[2]), "A", 0) ELSE NoDoc]
  /\ sharedResumes = [r \in ResumeIds |-> NoDoc]
  /\ nextId = n + 1
  /\ now = 0
  /\ proc = [c \in Clients |-> Idle]
  /\ builder = [c \in Clients |-> NoBuilder]
  /\ result = NoResult
  /\ hook = [c \in Clients |-> NewHook]
  /\ analytics = <<>>
  /\ before = <<>>
  /\ ghost = [GhostInit EXCEPT
                !.clean = [k \in ResumeKeys |-> k[1] = "A" /\ k[2] <= n]]

\* the oldest seeded resume and the first one a behaviour adds
RecencyTargets == {1, RecentResumesCap}
InitRecency == \E n \in {0, RecentResumesCap - 1} : InitSeeded(n)
NextRecency ==
  \/ CreateSteps({1}, {<<>>, [templateId |-> "classic"]}, RecencyResumes)
  \/ GallerySteps({2}, {"academic"}, RecencyResumes)
  \/ UpdateSteps({1}, {1}, {[title |-> "T1"]})
  \/ DeleteSteps({2}, RecencyTargets)
  \/ \E r \in RecencyTargets : handleDeleteResume(2, r)
SpecRecency == InitRecency /\ [][NextRecency]_vars

(***************************************************************************)
(* SpecShare: the owner in one tab, and in the other tab either the owner  *)
(* again or an anonymous visitor; sharing, unsharing and viewing while     *)
(* time passes.                                                            *)
(***************************************************************************)
ShareIds == 1..ShareResumes
InitShare ==
  \E visitor \in {"A", NoUser} :
    InitSignedIn([c \in Clients |-> IF c = 1 THEN "A" ELSE visitor])
NextShare ==
  \/ CreateSteps({1}, {<<>>}, ShareResumes)
  \/ ShareSteps({1}, ShareIds, DaysInputs)
  \/ UnshareSteps({1}, ShareIds)
  \/ ViewSteps(Clients, ShareIds)
  \/ Tick
SpecShare == InitShare /\ [][NextShare]_vars

(***************************************************************************)
(* SpecPublic: as SpecShare, the second tab being a visitor who is another *)
(* user or signed out.                                                     *)
(***************************************************************************)
InitPublic ==
  \E visitor \in {"B", NoUser} :
    InitSignedIn([c \in Clients |-> IF c = 1 THEN "A" ELSE visitor])
SpecPublic == InitPublic /\ [][NextShare]_vars

(***************************************************************************)
(* SpecTenant: user A in one tab and user B in the other.  Both create     *)
(* resumes and ask for every resume id there is; B also updates, deletes   *)
(* and shares by every id.                                                 *)
(***************************************************************************)
TenantIds == 1..TenantResumes
InitTenant == InitSignedIn([c \in Clients |-> IF c = 1 THEN "A" ELSE "B"])
NextTenant ==
  \/ CreateSteps(Clients, {<<>>}, TenantResumes)
  \/ \E c \in Clients, r \in TenantIds : getResumeById(c, r)
  \/ UpdateSteps({2}, TenantIds, {[title |-> "T1"]})
  \/ DeleteSteps({2}, TenantIds)
  \/ ShareSteps({2}, TenantIds, {Null})
SpecTenant == InitTenant /\ [][NextTenant]_vars

(***************************************************************************)
(* SpecProjection: the owner's data-layer calls in one tab (create,        *)
(* update, share, unshare, delete, view) and the resume builder in the     *)
(* other tab, which also views the share.                                  *)
(***************************************************************************)
ProjectionIds == 1..ProjectionResumes
InitProjection == InitSignedIn([c \in Clients |-> "A"])
NextProjection ==
  \/ CreateSteps({1}, {[templateId |-> "classic"]}, ProjectionResumes)
  \/ UpdateSteps({1}, ProjectionIds, {[title |-> "T1"]})
  \/ ShareSteps({1}, ProjectionIds, {Null})
  \/ UnshareSteps({1}, ProjectionIds)
  \/ DeleteSteps({1}, ProjectionIds)
  \/ ViewSteps({2}, ProjectionIds)
  \/ \E r \in ProjectionIds : ResumeBuilder_fetchResumeData(2, r)
  \/ \E v \in InfoInputs : updatePersonalInfo(2, v)
  \/ handleSave(2)
SpecProjection == InitProjection /\ [][NextProjection]_vars

(***************************************************************************)
(* SpecProfile: two tabs in which user A signs in and out while time       *)
(* passes.                                                                 *)
(***************************************************************************)
NextProfile ==
  \/ ObserverSteps(Clients, {"A", NoUser})
  \/ Tick
SpecProfile == Init /\ [][NextProfile]_vars

(***************************************************************************)
(* SpecIdentity: the second tab signs in as A and out again and calls      *)
(* every operation of the data layer in either state; the first tab, never *)
(* signed in, opens the share link.                                        *)
(***************************************************************************)
IdentityIds == 1..IdentityResumes
NextIdentity ==
  \/ SignIn(2, "A")
  \/ SignOut(2)
  \/ CreateSteps({2}, {<<>>}, IdentityResumes)
  \/ \E r \in IdentityIds : getResumeById(2, r)
  \/ UpdateSteps({2}, IdentityIds, {[title |-> "T1"]})
  \/ DeleteSteps({2}, IdentityIds)
  \/ ShareSteps({2}, IdentityIds, {Null})
  \/ UnshareSteps({2}, IdentityIds)
  \/ AccountSteps({2}, {[displayName |-> "N"]}, SettingsInputs)
  \/ ViewSteps({1}, IdentityIds)
SpecIdentity == Init /\ [][NextIdentity]_vars

(***************************************************************************)
(* SpecAnalytics: user A signs in and out in two tabs; either tab logs     *)
(* events at any moment, signed in or not, while the observer runs or not. *)
(***************************************************************************)
NextAnalytics ==
  \/ ObserverSteps(Clients, {"A", NoUser})
  \/ \E c \in Clients, data \in EventInputs, unavailable \in BOOLEAN :
        logEvent(c, "page_view", data, unavailable)
SpecAnalytics == Init /\ [][NextAnalytics]_vars

(***************************************************************************)
(* SpecFailure: one tab of user A, the only writer, calls the write        *)
(* operations one after the other and may sign out and in again at any     *)
(* moment, also between two requests of an operation.                      *)
(***************************************************************************)
FailureIds == {1}
InitFailure == InitObserved([c \in Clients |-> IF c = 1 THEN "A" ELSE NoUser],
                            {1})
NextFailure ==
  \/ SignIn(1, "A")
  \/ SignOut(1)
  \/ CreateSteps({1}, {<<>>}, FailureResumes)
  \/ UpdateSteps({1}, FailureIds, {[title |-> "T1"]})
  \/ DeleteSteps({1}, FailureIds)
  \/ ShareSteps({1}, FailureIds, {Null})
  \/ UnshareSteps({1}, FailureIds)
SpecFailure == InitFailure /\ [][NextFailure]_vars

(***************************************************************************)
(* SpecAdmin: user A signs in and out in two tabs; the sign-in observer     *)
(* bootstraps the profile, and either tab reads and updates the profile    *)
(* and the settings.                                                       *)
(***************************************************************************)
NextAdmin ==
  \/ ObserverSteps(Clients, {"A", NoUser})
  \/ AccountSteps(Clients, ProfileInputs, SettingsInputs)
SpecAdmin == Init /\ [][NextAdmin]_vars

(***************************************************************************)
(* SpecListing: user A creates resumes through createResume and through    *)
(* the template gallery and updates them while time passes; the first tab  *)
(* and a signed-out tab list the resumes.                                  *)
(***************************************************************************)
ListingIds == 1..ListingResumes
InitListing == InitSignedIn([c \in Clients |-> IF c = 1 THEN "A" ELSE NoUser])
NextListing ==
  \/ CreateSteps({1}, {<<>>}, ListingResumes)
  \/ GallerySteps({1}, {"modern"}, ListingResumes)
  \/ UpdateSteps({1}, ListingIds, {[title |-> "T1"]})
  \/ Tick
  \/ \E c \in Clients : getResumes(c)
  \/ \E c \in Clients : useFirestore_getResumes(c)
SpecListing == InitListing /\ [][NextListing]_vars

(***************************************************************************)
(* SpecCatalog: a signed-in tab and a signed-out tab query the template    *)
(* catalogs, whatever documents these hold.                                *)
(***************************************************************************)
NextCatalog ==
  \/ \E c \in Clients, catalog \in Catalogs, category \in CategoryInputs,
        isPremium \in PremiumInputs :
        getTemplates(c, catalog, category, isPremium)
  \/ \E c \in Clients, catalog \in Catalogs : getDefaultTemplates(c, catalog)
SpecCatalog == InitListing /\ [][NextCatalog]_vars

(***************************************************************************)
(* SpecBuilder: the owner opens the resume builder on a stored resume,     *)
(* edits the personal information up to MaxEdits times and may press Save. *)
(* SpecAutoSave leaves the Save button alone and adds the scheduling: a    *)
(* pending render is carried out, a read in flight is answered and         *)
(* resolves, and a timer that stays set fires.                             *)
(***************************************************************************)
EditInputs == {"e1", "e2"}
TimerIds == 1..MaxTimers
InitBuilder == InitSeeded(1)
NextBuilder ==
  \/ ResumeBuilder_mount(1, 1)
  \/ ResumeBuilder_render(1)
  \/ fetchResumeData_getDoc(1)
  \/ fetchResumeData_setResumeData(1)
  \/ \E v \in EditInputs : updatePersonalInfo_setResumeData(1, v)
  \/ \E id \in TimerIds : autoSaveTimer_handleSave(1, id)
  \/ handleSave_onClick(1)
  \/ Tick
SpecBuilder == InitBuilder /\ [][NextBuilder]_vars
NextAutoSave ==
  \/ ResumeBuilder_mount(1, 1)
  \/ ResumeBuilder_render(1)
  \/ fetchResumeData_getDoc(1)
  \/ fetchResumeData_setResumeData(1)
  \/ \E v \in EditInputs : updatePersonalInfo_setResumeData(1, v)
  \/ \E id \in TimerIds : autoSaveTimer_handleSave(1, id)
SpecAutoSave ==
  /\ InitBuilder /\ [][NextAutoSave]_vars
  /\ WF_vars(ResumeBuilder_mount(1, 1))
  /\ WF_vars(ResumeBuilder_render(1))
  /\ WF_vars(fetchResumeData_getDoc(1))
  /\ WF_vars(fetchResumeData_setResumeData(1))
  /\ \A id \in TimerIds : WF_vars(autoSaveTimer_handleSave(1, id))

(***************************************************************************)
(* SpecRace: two tabs of one owner, from the empty store or with one       *)
(* resume stored; the first tab creates resumes, the second updates and    *)
(* deletes the first resume.  Only the data layer writes.                  *)
(***************************************************************************)
InitRace == \E n \in {0, 1} : InitSeeded(n)
NextRace ==
  \/ CreateSteps({1}, {<<>>}, RaceResumes)
  \/ UpdateSteps({2}, {1}, {[title |-> "T1"]})
  \/ DeleteSteps({2}, {1})
SpecRace == InitRace /\ [][NextRace]_vars

(***************************************************************************)
(* SpecReshare: the owner in two tabs and one stored resume; the first tab *)
(* shares it again and again, the second updates and views it, while time  *)
(* passes.                                                                 *)
(***************************************************************************)
InitReshare == InitSeeded(1)
NextReshare ==
  \/ ShareSteps({1}, {1}, DaysInputs)
  \/ UpdateSteps({2}, {1}, {[title |-> "T1"]})
  \/ ViewSteps({2}, {1})
  \/ Tick
SpecReshare == InitReshare /\ [][NextReshare]_vars

(***************************************************************************)
(* SpecObserver: as SpecProfile, and a tab may be signed out while the     *)
(* callback of its sign-in has not finished.                               *)
(***************************************************************************)
NextObserver ==
  \/ ObserverSteps(Clients, {"A", NoUser})
  \/ \E c \in Clients : onAuthStateChanged_signedOut(c)
  \/ Tick
SpecObserver == Init /\ [][NextObserver]_vars

(***************************************************************************)
(* Properties of the version counter and the version history.              *)
(***************************************************************************)
\* C1: a resume created by createResume and then changed only by N
\* successful updateResume calls issued one after another has version
\* 1 + N and a history of N + 1 entries, the i-th carrying versionNumber i.
C1_VersionCountsUpdates ==
  \A k \in ResumeKeys :
    (ghost.clean[k] /\ resumes[k] # NoDoc /\ ~UpdateInFlight(k)) =>
      /\ resumes[k].version = 1 + ghost.updCount[k]
      /\ Len(resumes[k].versions) = 1 + ghost.updCount[k]
      /\ \A i \in 1..Len(resumes[k].versions) :
            resumes[k].versions[i].versionNumber = i

\* two updates in sequence: version 3, three entries
C1_Witness ==
  \E k \in ResumeKeys :
    /\ ghost.clean[k] /\ resumes[k] # NoDoc /\ ~UpdateInFlight(k)
    /\ ghost.updCount[k] = 2
    /\ resumes[k].version = 3
    /\ Len(resumes[k].versions) = 3

\* the fields of a resume that hold what the user wrote
ContentFields == {"title", "content", "templateId", "template", "settings"}
ContentDiffers(d, e) ==
  \E f \in ContentFields :
    \/ Has(d, f) # Has(e, f)
    \/ Has(d, f) /\ Has(e, f) /\ d[f] # e[f]

\* C2: every write that changes the content of a stored resume raises its
\* version by exactly 1 and appends exactly one history entry that carries
\* the new version number.
C2_ContentWriteBumpsVersion ==
  [][\A k \in ResumeKeys :
       (resumes[k] # NoDoc /\ resumes'[k] # NoDoc
        /\ ContentDiffers(resumes[k], resumes'[k])) =>
         /\ Get(resumes'[k], "version", 0) = Get(resumes[k], "version", 0) + 1
         /\ Len(Get(resumes'[k], "versions", <<>>))
              = Len(Get(resumes[k], "versions", <<>>)) + 1
         /\ IsPrefix(Get(resumes[k], "versions", <<>>),
                     Get(resumes'[k], "versions", <<>>))
         /\ resumes'[k].versions[Len(resumes'[k].versions)].versionNumber
              = resumes'[k].version]_vars

\* C3: the version history is append-only and the version never decreases:
\* in every step, the stored history of a resume is a prefix of its history
\* after the step.
C3_HistoryAppendOnly ==
  [][\A k \in ResumeKeys :
       (resumes[k] # NoDoc /\ resumes'[k] # NoDoc) =>
         /\ IsPrefix(Get(resumes[k], "versions", <<>>),
                     Get(resumes'[k], "versions", <<>>))
         /\ Get(resumes'[k], "version", 0) >= Get(resumes[k], "version", 0)]_vars

(***************************************************************************)
(* Properties of the recency lists.                                        *)
(***************************************************************************)
\* C4: the resume recency list has at most 10 entries, the template
\* recency list at most 5, and neither holds an id twice.
C4_RecencyListsBounded ==
  \A u \in Users :
    userSettings[u] # NoDoc =>
      /\ Len(RecentResumes(userSettings[u])) <= 10
      /\ Len(RecentTemplates(userSettings[u])) <= 5
      /\ NoDup(RecentResumes(userSettings[u]))
      /\ NoDup(RecentTemplates(userSettings[u]))

AllIdle == \A c \in Clients : proc[c] = Idle

\* every operation has finished, both lists are full, and a resume and a
\* template have been pushed out of them
C4_Witness ==
  \E u \in Users :
    /\ AllIdle
    /\ userSettings[u] # NoDoc
    /\ Len(RecentResumes(userSettings[u])) = 10
    /\ Len(RecentTemplates(userSettings[u])) = 5
    /\ \E r \in ResumeIds :
         /\ resumes[<<u, r>>] # NoDoc
         /\ r \notin Range(RecentResumes(userSettings[u]))
    /\ \E r \in ResumeIds :
         /\ resumes[<<u, r>>] # NoDoc
         /\ Has(resumes[<<u, r>>], "templateId")
         /\ resumes[<<u, r>>].templateId # ""
         /\ resumes[<<u, r>>].templateId
              \notin Range(RecentTemplates(userSettings[u]))

\* C5: once a delete has completed and no operation is in flight, the
\* owner's resume recency list holds no id of a resume that does not exist.
C5_NoDanglingRecentId ==
  (AllIdle /\ ghost.deleted # {}) =>
    \A u \in Users :
      userSettings[u] # NoDoc =>
        \A r \in Range(RecentResumes(userSettings[u])) :
          resumes[<<u, r>>] # NoDoc

(***************************************************************************)
(* Properties of creation.                                                 *)
(***************************************************************************)
\* a resume as a creation with no initial content is to store it
FreshResume(d) ==
  /\ Has(d, "version") /\ d.version = 1
  /\ Has(d, "versions")
  /\ d.versions = <<[versionNumber |-> 1, changes |-> "Initial creation"]>>
  /\ Has(d, "isPublic") /\ d.isPublic = FALSE
  /\ Has(d, "content")
  /\ \A f \in {"education", "experience", "skills", "projects",
               "certifications"} : d.content[f] = <<>>

\* C9: every resume a create action inserts without initial content is
\* stored with version 1, the single history entry {1, 'Initial creation'},
\* isPublic false and empty list-type sections.
C9_CreatedFresh ==
  [][\A k \in ResumeKeys :
       (/\ resumes[k] = NoDoc
        /\ resumes'[k] # NoDoc
        /\ ~\E c \in Clients : /\ proc'[c] # proc[c]
                               /\ proc[c].op = "createResume"
                               /\ Has(proc[c].resumeData, "content"))
       => FreshResume(resumes'[k])]_vars

(***************************************************************************)
(* Properties of sharing.                                                  *)
(***************************************************************************)
\* C6: a getSharedResume whose snapshot carries an expiry that lies before
\* the current time ends with the error 'This shared resume has expired'
\* and writes nothing to the shared documents.
C6_ExpiredViewRejected ==
  [][\A c \in Clients :
       (/\ At(c, "getSharedResume", "updateDoc")
        /\ proc'[c] = Idle
        /\ Has(proc[c].sharedResumeData, "expiresAt")
        /\ proc[c].sharedResumeData.expiresAt # <<>>
        /\ proc[c].sharedResumeData.expiresAt[1] < now)
       => /\ result'.client = c
          /\ result'.op = "getSharedResume"
          /\ result'.status = "This shared resume has expired"
          /\ sharedResumes' = sharedResumes]_vars

\* a share that was viewed once while valid and refused once it had expired
C6_Witness ==
  /\ result.op = "getSharedResume"
  /\ result.status = "This shared resume has expired"
  /\ sharedResumes[result.rid] # NoDoc
  /\ sharedResumes[result.rid].expiresAt # <<>>
  /\ sharedResumes[result.rid].expiresAt[1] < now
  /\ sharedResumes[result.rid].viewCount = 1
  /\ ghost.views[result.rid] = 1

\* C7: the view counter of a share equals the number of getSharedResume
\* calls that have succeeded on it, whether the calls overlap or not.
C7_ViewCountCountsViews ==
  \A r \in ResumeIds :
    (sharedResumes[r] # NoDoc /\ ~ghost.racy[r]) =>
      sharedResumes[r].viewCount = ghost.views[r]

\* C10: a share stores expiresAt = share time + expiresInDays for every
\* given expiresInDays, 0 included, and null exactly when none was given;
\* a shareResume that succeeded leaves the resume public.
C10_ExpiryFromDays ==
  /\ \A r \in ResumeIds :
       sharedResumes[r] # NoDoc =>
         sharedResumes[r].expiresAt =
           (IF ghost.shareDays[r] = <<>> THEN <<>>
            ELSE <<sharedResumes[r].createdAt + ghost.shareDays[r][1]>>)
  /\ (result.op = "shareResume" /\ result.status = "ok") =>
       \E u \in Users : /\ resumes[<<u, result.rid>>] # NoDoc
                        /\ resumes[<<u, result.rid>>].isPublic

(***************************************************************************)
(* Properties of tenant isolation.                                         *)
(***************************************************************************)
\* C8: a getResumeById for a resume that exists only under another user
\* ends with 'Resume not found' and returns no data; every resume path an
\* operation addresses lies under the user who issued it, and a resume
\* document changes only in a step of a client signed in as its owner.
C8_TenantIsolation ==
  [][/\ (/\ result' # result
         /\ result'.op = "getResumeById"
         /\ auth[result'.client] # NoUser
         /\ resumes[<<auth[result'.client], result'.rid>>] = NoDoc
         /\ \E v \in Users : resumes[<<v, result'.rid>>] # NoDoc)
        => /\ result'.status = "Resume not found"
           /\ "data" \notin DOMAIN result'
     /\ \A t \in ghost'.touched : t[1] = t[2]
     /\ \A k \in ResumeKeys :
          resumes'[k] # resumes[k] =>
            \E c \in Clients : /\ auth[c] = k[1]
                               /\ \/ proc'[c] # proc[c]
                                  \/ /\ result' # result
                                     /\ result'.client = c]_vars

\* user B has just asked for a resume that exists under user A only
C8_Witness ==
  /\ result.op = "getResumeById"
  /\ result.status = "Resume not found"
  /\ auth[result.client] = "B"
  /\ resumes[<<"A", result.rid>>] # NoDoc
  /\ resumes[<<"B", result.rid>>] = NoDoc
  /\ \E r \in ResumeIds : resumes[<<"B", r>>] # NoDoc

(***************************************************************************)
(* Properties of the shared projection.                                    *)
(***************************************************************************)
\* C11: whenever no operation is in flight, a shared document exists for
\* resume id r exactly when the source resume r exists with isPublic true.
C11_SharedMirrorsIsPublic ==
  AllIdle =>
    \A r \in ResumeIds :
      (sharedResumes[r] # NoDoc) <=>
        (\E u \in Users : /\ resumes[<<u, r>>] # NoDoc
                          /\ Get(resumes[<<u, r>>], "isPublic", FALSE))

\* C12: once an unshareResume of r has completed successfully, with no
\* shareResume of r running meanwhile or started since, no shared document
\* of r exists and every getSharedResume of r that starts ends at once with
\* 'Shared resume not found'; the step that completes the unshare leaves
\* the source resume with isPublic false.
C12_UnsharedIsNotFound ==
  [][\A r \in ResumeIds :
       /\ ghost.unshared[r] = "yes" =>
            /\ sharedResumes[r] = NoDoc
            /\ \A c \in Clients :
                 (/\ proc[c] = Idle
                  /\ \/ /\ proc'[c] # Idle
                        /\ proc'[c].op = "getSharedResume"
                        /\ proc'[c].rid = r
                     \/ /\ result' # result
                        /\ result'.op = "getSharedResume"
                        /\ result'.client = c
                        /\ result'.rid = r)
                 => /\ proc'[c] = Idle
                    /\ result'.op = "getSharedResume"
                    /\ result'.status = "Shared resume not found"
       /\ (/\ result' # result
           /\ result'.op = "unshareResume"
           /\ result'.status = "ok"
           /\ result'.rid = r)
          => /\ resumes'[<<auth[result'.client], r>>] # NoDoc
             /\ resumes'[<<auth[result'.client], r>>].isPublic = FALSE]_vars

\* a share that was viewed, then unshared, and a view of it that was refused
C12_Witness ==
  /\ result.op = "getSharedResume"
  /\ result.status = "Shared resume not found"
  /\ ghost.unshared[result.rid] = "yes"
  /\ ghost.views[result.rid] >= 1
  /\ \E u \in Users : /\ resumes[<<u, result.rid>>] # NoDoc
                      /\ resumes[<<u, result.rid>>].isPublic = FALSE

\* C13: no step of deleteResume changes a shared document; when the source
\* resume of a share is gone, a getSharedResume by the owner of the share
\* that reads it unexpired still succeeds and counts one view.
C13_DeleteKeepsShared ==
  [][\A c \in Clients :
       /\ (\/ /\ proc'[c] # proc[c]
              /\ \/ proc[c].op = "deleteResume"
                 \/ proc'[c].op = "deleteResume"
           \/ /\ result' # result
              /\ result'.op = "deleteResume"
              /\ result'.client = c)
          => sharedResumes' = sharedResumes
       /\ (/\ At(c, "getSharedResume", "updateDoc")
           /\ proc'[c] = Idle
           /\ sharedResumes[proc[c].rid] # NoDoc
           /\ auth[c] = sharedResumes[proc[c].rid].userId
           /\ resumes[<<auth[c], proc[c].rid>>] = NoDoc
           /\ \/ proc[c].sharedResumeData.expiresAt = <<>>
              \/ proc[c].sharedResumeData.expiresAt[1] >= now)
          => /\ result'.status = "ok"
             /\ sharedResumes'[proc[c].rid] =
                  [sharedResumes[proc[c].rid] EXCEPT
                     !.viewCount = proc[c].sharedResumeData.viewCount + 1]]_vars

\* a shared resume was deleted by deleteResume; its share still exists with
\* the content it had and has just been viewed
C13_Witness ==
  /\ result.op = "getSharedResume"
  /\ result.status = "ok"
  /\ <<"A", result.rid>> \in ghost.deleted
  /\ resumes[<<"A", result.rid>>] = NoDoc
  /\ sharedResumes[result.rid] # NoDoc
  /\ sharedResumes[result.rid].content = EmptyContent("A")
  /\ sharedResumes[result.rid].viewCount = 1

\* C14: a shared document carries the title, content and templateId that
\* the most recent shareResume read from the source, and no step other
\* than one of shareResume changes them: updateResume and the builder's
\* writes to the private resume do not reach the shared copy.
C14_SharedIsSnapshot ==
  [][\A r \in ResumeIds :
       /\ sharedResumes[r] # NoDoc =>
            CopiedFields(sharedResumes[r]) = ghost.sharedFrom[r]
       /\ (/\ sharedResumes[r] # NoDoc
           /\ sharedResumes'[r] # NoDoc
           /\ ~\E c \in Clients : /\ proc[c].op = "shareResume"
                                  /\ proc'[c] # proc[c])
          => CopiedFields(sharedResumes'[r]) = CopiedFields(sharedResumes[r])]_vars

\* the private resume was updated and saved from the builder after the
\* share, and the shared copy still has what the share read
C14_Witness ==
  \E r \in ResumeIds :
    /\ sharedResumes[r] # NoDoc
    /\ resumes[<<"A", r>>] # NoDoc
    /\ ghost.updCount[<<"A", r>>] >= 1
    /\ resumes[<<"A", r>>].title # sharedResumes[r].title
    /\ resumes[<<"A", r>>].content # sharedResumes[r].content
    /\ sharedResumes[r].title = "Untitled Resume"
    /\ sharedResumes[r].content = EmptyContent("A")

(***************************************************************************)
(* Properties of the profile bootstrap.                                    *)
(***************************************************************************)
\* C15: a createUserProfile step on a missing profile creates the profile
\* and then settings with empty recency lists; on an existing profile it
\* changes lastLogin only and leaves the settings alone; when a call has
\* completed, the profile and the settings of the identity both exist, and
\* the observer never ends with 'User settings not found'.
C15_ProfileBootstrapIdempotent ==
  [][\A c \in Clients :
       /\ (At(c, "onAuthStateChanged", "updateDoc") /\ proc'[c] # proc[c])
          => /\ userSettings' = userSettings
             /\ \A u \in Users :
                  /\ (users[u] = NoDoc) = (users'[u] = NoDoc)
                  /\ users[u] # NoDoc =>
                       Without(users'[u], "lastLogin") =
                         Without(users[u], "lastLogin")
       /\ (At(c, "onAuthStateChanged", "setSettings") /\ proc'[c] # Idle
           /\ proc'[c] # proc[c])
          => /\ RecentResumes(userSettings'[proc[c].uid]) = <<>>
             /\ RecentTemplates(userSettings'[proc[c].uid]) = <<>>
       /\ (/\ result' # result
           /\ result'.op = "createUserProfile"
           /\ result'.status = "ok"
           /\ result'.client = c)
          => /\ users'[proc[c].uid] # NoDoc
             /\ userSettings'[proc[c].uid] # NoDoc
       /\ hook'[c].error # <<"User settings not found">>]_vars

(***************************************************************************)
(* Properties of the identity check.                                       *)
(***************************************************************************)
OwnershipOps ==
  {"createResume", "getResumes", "getResumeById", "updateResume",
   "deleteResume", "shareResume", "unshareResume", "getUserProfile",
   "updateUserProfile", "getUserSettings", "updateUserSettings"}

\* a step in which client c, idle before, calls an operation
Calls(c) ==
  /\ proc[c] = Idle
  /\ \/ proc'[c] # Idle
     \/ result' # result /\ result'.client = c

\* C16: an operation that needs the owner, called by a client with no
\* identity, ends in that step with 'User not authenticated', and the step
\* changes no document and addresses no resume path; getSharedResume called
\* with no identity never ends with 'User not authenticated'.
C16_UnauthenticatedRefused ==
  [][\A c \in Clients :
       /\ (Calls(c) /\ auth[c] = NoUser /\ proc'[c].op # "getSharedResume"
           /\ (proc'[c] = Idle => result'.op # "getSharedResume"))
          => /\ proc'[c] = Idle
             /\ result'.op \in OwnershipOps
             /\ result'.status = "User not authenticated"
             /\ UNCHANGED <<users, userSettings, resumes, sharedResumes,
                            nextId>>
             /\ ghost'.touched = ghost.touched
       /\ (result' # result /\ result'.client = c
           /\ result'.op = "getSharedResume" /\ auth[c] = NoUser)
          => result'.status # "User not authenticated"]_vars

\* the share of resume 1 exists and an unshareResume called with no
\* identity has just been refused
C16_Witness ==
  /\ result.op = "unshareResume"
  /\ result.status = "User not authenticated"
  /\ auth[result.client] = NoUser
  /\ sharedResumes[1] # NoDoc
  /\ resumes[<<"A", 1>>] # NoDoc

(***************************************************************************)
(* Properties of analytics logging.                                        *)
(***************************************************************************)
\* C17: a logEvent call resolves whatever the outcome of its store write
\* (written, denied by the rules, store unavailable, nothing sent), leaves
\* loading and error of every hook as they were, and creates no analytics
\* document when its client has no user signed in.
C17_LogEventNeverFails ==
  [][(result' # result /\ result'.op = "logEvent")
       => /\ result'.status = "ok"
          /\ hook' = hook
          /\ proc' = proc
          /\ auth[result'.client] = NoUser => analytics' = analytics
          /\ analytics' # analytics <=> result'.write = "ok"]_vars

\* a logEvent whose write the rules denied has resolved while the observer
\* of the same tab is still loading
C17_Witness ==
  /\ result.op = "logEvent"
  /\ result.write = "permission-denied"
  /\ result.status = "ok"
  /\ hook[result.client].loading
  /\ proc[result.client] # Idle

(***************************************************************************)
(* Properties of failed operations.                                        *)
(***************************************************************************)
\* a step in which an operation of client c ends
Ends(c) ==
  /\ proc'[c] = Idle
  /\ proc[c] # Idle \/ result' # result
  /\ result' # NoResult
  /\ result'.client = c

\* the documents as the operation of client c that ends in this step found
\* them
StoreBefore(c) == IF proc[c] = Idle THEN Store ELSE before[c][1].store

\* C18: when createResume, updateResume, deleteResume, shareResume or
\* unshareResume of the only writer ends in an error, the resume, shared
\* resume and settings documents are as they were when the operation started.
C18_FailedWriteLeavesState ==
  [][\A c \in DOMAIN before :
       (Ends(c) /\ result'.op \in WriteOps /\ result'.status # "ok")
         => Store' = StoreBefore(c)]_vars

\* an unshareResume of resume r by client c has failed after it deleted the
\* share, the source is still there and c is signed in as its owner
UnshareInterrupted(c, r) ==
  /\ proc[c] = Idle
  /\ auth[c] # NoUser
  /\ result # NoResult
  /\ result.client = c /\ result.op = "unshareResume" /\ result.rid = r
  /\ result.status # "ok"
  /\ before[c] # <<>>
  /\ before[c][1].call.op = "unshareResume" /\ before[c][1].call.rid = r
  /\ before[c][1].base.sharedResumes[r] # NoDoc
  /\ sharedResumes[r] = NoDoc
  /\ resumes[<<auth[c], r>>] # NoDoc

\* what the run of calls that ends with a successful call has to reach,
\* counted from the documents the first call found
RetryReached(c) ==
  LET base == before[c][1].base
      call == before[c][1].call
      ref == <<call.userId, Get(call, "rid", 0)>>
  IN /\ result'.op = "createResume" =>
          /\ Cardinality({k \in ResumeKeys : resumes'[k] # NoDoc}) =
               Cardinality({k \in ResumeKeys : base.resumes[k] # NoDoc}) + 1
          /\ RecentResumes(userSettings'[call.userId])[1] = result'.rid
     /\ result'.op = "unshareResume" =>
          /\ sharedResumes'[call.rid] = NoDoc
          /\ Get(resumes'[ref], "isPublic", TRUE) = FALSE
     /\ result'.op = "shareResume" =>
          /\ sharedResumes'[call.rid] # NoDoc
          /\ CopiedFields(sharedResumes'[call.rid]) =
               CopiedFields(base.resumes[ref])
          /\ Get(resumes'[ref], "isPublic", FALSE) = TRUE

\* C19: after shareResume, unshareResume or createResume failed past its
\* first write, the same call made again is accepted, and when it succeeds
\* the documents are those of one uninterrupted run: one new resume, first in
\* the recency list; no share and isPublic false; a share of the source and
\* isPublic true.
C19_RetryRecovers ==
  /\ [](\A c \in DOMAIN before : \A r \in FailureIds :
          UnshareInterrupted(c, r) =>
            ENABLED (unshareResume_deleteDoc(c, r) /\ proc'[c] # Idle))
  /\ [][\A c \in DOMAIN before :
          (Ends(c) /\ proc[c] # Idle /\ result'.status = "ok"
           /\ result'.op \in {"createResume", "shareResume", "unshareResume"})
            => RetryReached(c)]_vars

(***************************************************************************)
(* Properties of the template catalogs.                                    *)
(***************************************************************************)
\* C20: no user, every profile having been created by createUserProfile
\* with isAdmin = false, reaches a state in which the rules allow that user a
\* write to templates or defaultTemplates.
C20_TemplatesAdminOnly == \A u \in Users : ~AllowTemplateWrite(u, users[u])

(***************************************************************************)
(* Properties of public reading.                                           *)
(***************************************************************************)
\* C21: a getSharedResume of a share that exists and is not expired returns
\* its data, whoever calls: the owner, another user, a signed-out visitor.
C21_SharedPubliclyReadable ==
  [][\A c \in Clients :
       (/\ At(c, "getSharedResume", "updateDoc")
        /\ proc'[c] = Idle
        /\ sharedResumes[proc[c].rid] # NoDoc
        /\ ~IsExpired(proc[c].sharedResumeData, now))
       => result'.status = "ok"]_vars

(***************************************************************************)
(* Properties of listing the resumes.                                      *)
(***************************************************************************)
\* ids lists every resume of the user once, a resume updated later before a
\* resume updated earlier
ListsMostRecentFirst(userId, ids) ==
  /\ Len(ids) = Cardinality(ResumesOf(userId))
  /\ {ids[i] : i \in 1..Len(ids)} = ResumesOf(userId)
  /\ \A i, j \in 1..Len(ids) :
       i < j => resumes[<<userId, ids[i]>>].updatedAt.t >=
                  resumes[<<userId, ids[j]>>].updatedAt.t

\* C22: getResumes, of the data layer and of the hook, returns to a signed-in
\* owner all the owner's resumes, most recently updated first (none: the
\* empty sequence, no error), and ends in an error when nobody is signed in.
C22_GetResumesListsAll ==
  [][\A c \in Clients :
       (/\ result' # result
        /\ result'.op \in {"getResumes", "useFirestore_getResumes"}
        /\ result'.client = c)
       => IF auth[c] = NoUser
          THEN result'.status # "ok"
          ELSE /\ result'.status = "ok"
               /\ ListsMostRecentFirst(auth[c], result'.ids)]_vars

(***************************************************************************)
(* Properties of the template queries.                                     *)
(***************************************************************************)
\* ids lists the documents of the catalog that match, each once, a more
\* popular one before a less popular one
ListsByPopularity(catalog, matching, ids) ==
  /\ Len(ids) = Cardinality(matching)
  /\ {ids[i] : i \in 1..Len(ids)} = matching
  /\ \A i, j \in 1..Len(ids) :
       i < j => catalog[ids[i]].popularity >= catalog[ids[j]].popularity

\* C23: getTemplates and getDefaultTemplates change no document; a call
\* that succeeds returns the entries of its catalog, in descending order of
\* popularity: for getTemplates those of the given category and of the given
\* isPremium (false included), for getDefaultTemplates all of them.
C23_TemplateQueries ==
  [][(result' # result
      /\ result'.op \in {"getTemplates", "getDefaultTemplates"})
       => /\ UNCHANGED <<users, userSettings, resumes, sharedResumes,
                         analytics>>
          /\ (result'.status = "ok" /\ result'.op = "getTemplates") =>
               ListsByPopularity(result'.catalog,
                  {i \in DOMAIN result'.catalog :
                     /\ (result'.category \notin {Null, <<"">>}) =>
                          result'.catalog[i].category = result'.category[1]
                     /\ result'.isPremium # Null =>
                          result'.catalog[i].premium = result'.isPremium[1]},
                  result'.templateIds)
          /\ (result'.status = "ok" /\ result'.op = "getDefaultTemplates") =>
               ListsByPopularity(result'.catalog, DOMAIN result'.catalog,
                                 result'.templateIds)]_vars

(***************************************************************************)
(* Properties of the resume builder's auto-save.                           *)
(***************************************************************************)
\* C24: once the user has made the last edit of the loaded resume, the
\* auto-save eventually writes the edited data to the store.
C24_AutoSaveEventually ==
  (Rendering(1) /\ builder[1].edits = MaxEdits)
    ~> (Rendering(1) /\ builder[1].autoSaved)

\* C30: while an edit is not yet written to the store, a read of the fetch
\* effect that resolves does not replace the edited resumeData.
C30_EditNotDiscarded ==
  [][(Rendering(1) /\ builder[1].edited # Null
      /\ Len(builder'[1].fetches) < Len(builder[1].fetches))
       => builder'[1].resumeData = builder[1].resumeData]_vars

(***************************************************************************)
(* Properties of interleaved calls.                                        *)
(***************************************************************************)
\* the document write of the updateResume call of c takes place in this step
UpdateWrites(c) ==
  /\ At(c, "updateResume", "updateDoc")
  /\ proc'[c] # Idle /\ proc'[c].op = "updateResume"
  /\ proc'[c].pc = "getSettings"

\* C25: updateResume does not compare versions: its write is accepted
\* whenever the document exists, and it stores the version the call read
\* plus one and the history the call read plus one entry, whatever the
\* stored version has become since; two calls that both read version v thus
\* both write v + 1.
C25_NoConcurrencyCheck ==
  /\ [](\A c \in Clients :
          (At(c, "updateResume", "updateDoc") /\ auth[c] = proc[c].userId
           /\ resumes[ResumeRef(proc[c].userId, proc[c].rid)] # NoDoc)
            => ENABLED (updateResume_updateDoc(c) /\ UpdateWrites(c)))
  /\ [][\A c \in Clients :
          UpdateWrites(c) =>
            LET ref == ResumeRef(proc[c].userId, proc[c].rid)
                read == proc[c].currentResume
            IN /\ resumes'[ref].version = Get(read, "version", 0) + 1
               /\ Len(resumes'[ref].versions)
                    = Len(Get(read, "versions", <<>>)) + 1]_vars

\* both tabs updated the resume at version 1, both calls succeeded, and the
\* resume has version 2 and a history of two entries
C25_Witness ==
  \E k \in ResumeKeys :
    /\ resumes[k] # NoDoc /\ ~UpdateInFlight(k)
    /\ ghost.updCount[k] = 2
    /\ resumes[k].version = 2
    /\ Len(resumes[k].versions) = 2
    /\ builder = [c \in Clients |-> NoBuilder]

\* the settings write of the running call of c succeeds in this step
SettingsWrites(c, op, pc) ==
  /\ At(c, op, pc)
  /\ proc[c].userSettingsDoc # NoDoc
  /\ proc'[c] = Idle
  /\ result'.client = c /\ result'.op = op /\ result'.status = "ok"

\* C26: the settings write of createResume, updateResume and deleteResume
\* stores the recency list computed from the list the call read, whatever
\* the stored list has become since; two calls of one owner whose reads and
\* writes interleave thus both succeed while the list shows only one.
C26_RecencyReadModifyWrite ==
  [][\A c \in Clients :
       LET u == proc[c].userId
           read == RecentResumes(proc[c].userSettingsDoc)
           stored == RecentResumes(userSettings'[u])
       IN /\ SettingsWrites(c, "createResume", "writeSettings") =>
               stored = PushFront(proc[c].rid, read, RecentResumesCap)
          /\ SettingsWrites(c, "updateResume", "updateSettings") =>
               stored = PushFront(proc[c].rid, read, RecentResumesCap)
          /\ SettingsWrites(c, "deleteResume", "updateSettings") =>
               stored = FilterNe(read, proc[c].rid)]_vars

\* the first tab created resume 2 and the second tab deleted resume 1, both
\* calls succeeded, and the list still names resume 1 or does not name
\* resume 2
C26_Witness ==
  /\ \A c \in Clients : proc[c] = Idle
  /\ <<"A", 1>> \in ghost.deleted
  /\ resumes[<<"A", 2>>] # NoDoc
  /\ userSettings["A"] # NoDoc
  /\ \/ 1 \in Range(RecentResumes(userSettings["A"]))
     \/ 2 \notin Range(RecentResumes(userSettings["A"]))

\* id is first in the list new, and two other ids that both lists hold come
\* in new in the order they have in old
MovedToFront(id, old, new) ==
  /\ Len(new) > 0 /\ new[1] = id
  /\ \A i, j \in 1..Len(new) : \A k, l \in 1..Len(old) :
       (i < j /\ new[i] # id /\ new[j] # id
        /\ old[k] = new[i] /\ old[l] = new[j]) => k < l

\* C27: when a createResume or an updateResume of r succeeds for an owner
\* whose settings document exists, the call leaves r first in the resume
\* recency list, the other ids in the order they had; createResume leaves a
\* specified template id first in the template list in the same way, and the
\* template list as it was when no template was specified.
C27_MostRecentFirst ==
  [][\A c \in Clients :
       LET u == proc[c].userId
           old == userSettings[u]
           new == userSettings'[u]
       IN /\ SettingsWrites(c, "updateResume", "updateSettings") =>
               MovedToFront(proc[c].rid, RecentResumes(old),
                            RecentResumes(new))
          /\ SettingsWrites(c, "createResume", "writeSettings") =>
               /\ MovedToFront(proc[c].rid, RecentResumes(old),
                               RecentResumes(new))
               /\ IF Get(proc[c].resumeData, "templateId", "") # ""
                  THEN MovedToFront(proc[c].resumeData.templateId,
                                    RecentTemplates(old),
                                    RecentTemplates(new))
                  ELSE RecentTemplates(new) = RecentTemplates(old)]_vars

(***************************************************************************)
(* Properties of sharing again.                                            *)
(***************************************************************************)
\* the setDoc of the shareResume call of c is accepted in this step
ShareWrites(c) ==
  /\ At(c, "shareResume", "setDoc")
  /\ proc'[c] # Idle /\ proc'[c].op = "shareResume"
  /\ proc'[c].pc = "updateDoc"

\* C28: a shareResume of a resume that is shared already replaces the shared
\* document: the new one has the title, content and templateId the call read
\* from the resume, viewCount 0, the expiry of this call (none when
\* expiresInDays is omitted) and no other field of the old one; its public
\* URL is that of the old one.
C28_ReshareOverwrites ==
  [][\A c \in Clients :
       (ShareWrites(c) /\ sharedResumes[proc[c].rid] # NoDoc) =>
         LET old == sharedResumes[proc[c].rid]
             new == sharedResumes'[proc[c].rid]
             days == proc[c].expiresInDays
         IN /\ CopiedFields(new) = CopiedFields(proc[c].resumeData)
            /\ new.viewCount = 0
            /\ days = Null => new.expiresAt = Null
            /\ (days # Null /\ days[1] > 0) =>
                 new.expiresAt = Some(now + days[1])
            /\ new.publicUrl = old.publicUrl
            /\ new.createdAt = now
            /\ DOMAIN new = {"resumeId", "userId", "createdAt", "expiresAt",
                             "viewCount", "publicUrl"}
                              \cup DOMAIN CopiedFields(proc[c].resumeData)]_vars

\* a share with an expiry was viewed, the resume was updated, and the share
\* made again without expiresInDays has just been written: the new title,
\* no views, no expiry
C28_Witness ==
  /\ At(1, "shareResume", "updateDoc")
  /\ proc[1].expiresInDays = Null
  /\ resumes[<<"A", 1>>].isPublic
  /\ sharedResumes[1] # NoDoc
  /\ sharedResumes[1].title = "T1"
  /\ sharedResumes[1].viewCount = 0
  /\ sharedResumes[1].expiresAt = Null
  /\ sharedResumes[1].createdAt > 0
  /\ ghost.shareDays[1] = Null

(***************************************************************************)
(* Properties of the authentication observer.                              *)
(***************************************************************************)
\* C29: when a tab is signed out and no callback of its observer is running,
\* user and userSettings of its hook are both null.
C29_SignedOutClearsUser ==
  \A c \in Clients :
    (auth[c] = NoUser /\ proc[c] = Idle) =>
      hook[c].user = Null /\ hook[c].userSettings = Null

====
